---- MODULE Spec2Model ----
(***************************************************************************)
(* The progress-tracked file operations engine of the file manager         *)
(* (core/file_ops.py): one FileOperations instance, its worker thread      *)
(* running copy / move / delete / copy_file, and a controller thread       *)
(* calling cancel() / pause() / resume() at any time.                      *)
(*                                                                         *)
(* The filesystem is a function from the existing paths (sequences of      *)
(* names) to nodes.  A file's data is a sequence of chunks, each chunk one *)
(* buffer_size read; byte counters count chunks.                           *)
(***************************************************************************)
EXTENDS Integers, Sequences, FiniteSets, TLC

\* ------------------------------------------------------------------ bounds

\* Largest file of the initial filesystem, in buffer_size chunks.
MaxChunks == 2
\* Environment faults (I/O error, corrupted write, failed unlink) per behaviour.
MaxFaults == 1
\* Top-level operations the client starts one after the other.
MaxOps == 1
\* Frames the worker's call stack can hold before the interpreter raises
\* RecursionError (sys.getrecursionlimit()).
MaxDepth == 6
\* Navigation calls made on one FilePane.
MaxPaneCalls == 4

\* ------------------------------------------------------------- filesystem

S == <<"s">>
D == <<"d">>
TRASH == <<"t">>

\* The order in which a directory's entries are listed.
NameOrder == <<"a", "b", "l">>

Base(p) == p[Len(p)]
Parent(p) == SubSeq(p, 1, Len(p) - 1)
\* safe_join(dir, name)
safe_join(d, n) == Append(d, n)
IsPrefix(p, q) == Len(p) <= Len(q) /\ SubSeq(q, 1, Len(p)) = p

FileNode(data) == [kind |-> "file", data |-> data, target |-> <<>>]
DirNode == [kind |-> "dir", data |-> <<>>, target |-> <<>>]
LinkNode(t) == [kind |-> "link", data |-> <<>>, target |-> t]

\* os.path.lexists
LExists(f, p) == p \in DOMAIN f
\* os.path.islink
IsLink(f, p) == LExists(f, p) /\ f[p].kind = "link"
\* The path a name resolves to (symbolic links followed, one level).
Real(f, p) == IF IsLink(f, p) THEN f[p].target ELSE p
\* os.path.exists: follows symbolic links, false for a dangling one
Exists(f, p) == LExists(f, p) /\ LExists(f, Real(f, p)) /\ ~IsLink(f, Real(f, p))
\* os.path.isfile / os.path.isdir: follow symbolic links
IsFile(f, p) == Exists(f, p) /\ f[Real(f, p)].kind = "file"
IsDir(f, p) == Exists(f, p) /\ f[Real(f, p)].kind = "dir"
\* The bytes read through a path.
Data(f, p) == f[Real(f, p)].data
\* os.path.getsize
GetSize(f, p) == Len(Data(f, p))

Put(f, p, node) == [q \in (DOMAIN f) \cup {p} |-> IF q = p THEN node ELSE f[q]]
\* Remove an entry and everything below it.
RemoveTree(f, p) == [q \in {r \in DOMAIN f : ~IsPrefix(p, r)} |-> f[q]]

RECURSIVE MakeDirs(_, _)
\* os.makedirs(p, exist_ok=True): the missing ancestors, then p.
MakeDirs(f, p) ==
    IF Len(p) = 0 \/ LExists(f, p) THEN f
    ELSE Put(MakeDirs(f, Parent(p)), p, DirNode)

\* os.rename(p, q): the entry and everything below it moves to q.
Rename(f, p, q) ==
    LET back(r) == p \o SubSeq(r, Len(q) + 1, Len(r))
        moved == {x \in DOMAIN f : IsPrefix(p, x)}
        kept == (DOMAIN f) \ moved
    IN  [r \in kept \cup {q \o SubSeq(x, Len(p) + 1, Len(x)) : x \in moved}
           |-> IF IsPrefix(q, r) /\ back(r) \in moved THEN f[back(r)] ELSE f[r]]

\* safe_listdir: the names in a directory, [] when it cannot be listed.
safe_listdir(f, d) ==
    IF IsDir(f, d)
    THEN SelectSeq(NameOrder, LAMBDA n : LExists(f, safe_join(Real(f, d), n)))
    ELSE <<>>

RECURSIVE Md5Fold(_, _)
Md5Fold(h, data) ==
    IF data = <<>> THEN h
    ELSE Md5Fold((h * 31 + Head(data) + 1) % 1000003, Tail(data))
\* _calculate_md5: a digest folded over the chunks read.
calculate_md5(f, p) == Md5Fold(7, Data(f, p))

\* ------------------------------------------------------------------ state

VARIABLES
    fs,              \* the filesystem: existing path -> node
    xdev,            \* the move's dest_dir lies on another filesystem than its items
    cancel_flag,     \* FileOperations.cancel_flag (threading.Event)
    pause_flag,      \* FileOperations.pause_flag (threading.Event)
    progress,        \* FileOperations.progress (OperationProgress)
    stk,             \* the worker thread's call stack, innermost frame last
    ret,             \* the value the last call returned to its caller
    call,            \* the top-level call in progress or just returned
    snap,            \* the snapshot the progress callback received last
    prev_snap,       \* the snapshot it received before that one
    last_copy_file,  \* the copy_file call in progress or last returned
    cancel_early,    \* cancel() arrived after the flags were cleared, before the first item
    copied,          \* indices of the items of a copy batch whose copy returned true
    faults,          \* environment faults still allowed
    nops             \* top-level operations started so far

vars == <<fs, xdev, cancel_flag, pause_flag, progress, stk, ret, call, snap,
          prev_snap, last_copy_file, cancel_early, copied, faults, nops>>

\* OperationProgress.reset
reset ==
    [current_file |-> "", current_percent |-> 0, current_bytes |-> 0,
     current_total |-> 0, overall_percent |-> 0, overall_bytes |-> 0,
     overall_total |-> 0, files_done |-> 0, files_total |-> 0,
     errors |-> <<>>, warnings |-> <<>>]

\* OperationProgress.to_dict
to_dict(pr) ==
    [file |-> pr.current_file, percent |-> pr.current_percent,
     copied |-> pr.current_bytes, total |-> pr.current_total,
     overall_percent |-> pr.overall_percent, completed |-> pr.files_done,
     files_total |-> pr.files_total, errors |-> Len(pr.errors),
     warnings |-> Len(pr.warnings)]

NoSnap == [file |-> "-", percent |-> 0, copied |-> 0, total |-> 0,
           overall_percent |-> 0, completed |-> 0, files_total |-> 0,
           errors |-> 0, warnings |-> 0]

\* A stack frame: the function, its position, its arguments and locals.
Frame0 ==
    [fn |-> "", pc |-> "", items |-> <<>>, src |-> <<>>, dst |-> <<>>, i |-> 1,
     success |-> TRUE, verify |-> FALSE, use_trash |-> FALSE,
     total_size |-> 0, file_count |-> 0, pos |-> 0]

NoCall == [op |-> "none", items |-> <<>>, dst |-> <<>>, verify |-> FALSE,
           use_trash |-> FALSE, fs0 |-> <<>>, cancel0 |-> FALSE, errors0 |-> 0]

NoCopyFile == [src |-> <<>>, dst |-> <<>>, verify |-> FALSE, phase |-> "none",
               result |-> FALSE, verified |-> "no", cancel_in_wait |-> FALSE,
               waited |-> FALSE, meta |-> "ok"]

CopyFileFrame(src, dst, verify) ==
    [Frame0 EXCEPT !.fn = "copy_file", !.pc = "begin", !.src = src, !.dst = dst,
                   !.verify = verify]
CopyDirectoryFrame(src, dst, verify) ==
    [Frame0 EXCEPT !.fn = "copy_directory", !.pc = "begin", !.src = src,
                   !.dst = dst, !.verify = verify]

Idle == stk = <<>>
Top == stk[Len(stk)]
SetTop(fr) == [stk EXCEPT ![Len(stk)] = fr]
Pop == SubSeq(stk, 1, Len(stk) - 1)
Push(after, fr) == Append(SetTop([Top EXCEPT !.pc = after]), fr)
At(fn, pc) == ~Idle /\ Top.fn = fn /\ Top.pc = pc

FaultChoices(kinds) == IF faults > 0 THEN {"none"} \cup kinds ELSE {"none"}
Spend(fault) == IF fault = "none" THEN faults ELSE faults - 1

\* Append a message to progress.errors / progress.warnings.
AddError(pr, msg) == [pr EXCEPT !.errors = Append(@, msg)]
AddWarning(pr, msg) == [pr EXCEPT !.warnings = Append(@, msg)]

\* ---------------------------------------------------------- initial states

\* The largest file: MaxChunks chunks, chunk k holding the value k.
BigData == [k \in 1..MaxChunks |-> k]

\* What s/a is: a regular file, a directory holding a file and a subdirectory
\* with a file, a dangling symbolic link, or a directory holding a symbolic
\* link to the file s/b.
SourceShapes == {"file", "dir", "link", "dirlink"}
\* What d is: missing, an empty directory, or a directory that holds d/b.
DestShapes == {"absent", "empty", "has_b"}

SourceTree(shape) ==
    CASE shape = "file" -> (S :> DirNode) @@ (<<"s", "a">> :> FileNode(BigData))
      [] shape = "dir" -> (S :> DirNode) @@ (<<"s", "a">> :> DirNode)
                          @@ (<<"s", "a", "a">> :> FileNode(<<1>>))
                          @@ (<<"s", "a", "b">> :> DirNode)
                          @@ (<<"s", "a", "b", "a">> :> FileNode(<<2>>))
      [] shape = "link" -> (S :> DirNode) @@ (<<"s", "a">> :> LinkNode(<<"s", "zz">>))
      [] shape = "dirlink" -> (S :> DirNode) @@ (<<"s", "a">> :> DirNode)
                              @@ (<<"s", "a", "l">> :> LinkNode(<<"s", "b">>))

DestTree(shape) ==
    CASE shape = "absent" -> <<>>
      [] shape = "empty" -> (D :> DirNode)
      [] shape = "has_b" -> (D :> DirNode) @@ (<<"d", "b">> :> FileNode(<<9>>))

InitFS(a, d) == SourceTree(a) @@ (<<"s", "b">> :> FileNode(<<2>>)) @@ DestTree(d)

\* The batches the client passes: items selected in the pane showing s.
ItemLists == {<< <<"s", "a">> >>, << <<"s", "a">>, <<"s", "b">> >>}

Init ==
    /\ \E a \in SourceShapes, d \in DestShapes : fs = InitFS(a, d)
    /\ xdev = FALSE
    /\ cancel_flag = FALSE
    /\ pause_flag = FALSE
    /\ progress = reset
    /\ stk = <<>>
    /\ ret = FALSE
    /\ call = NoCall
    /\ snap = NoSnap
    /\ prev_snap = NoSnap
    /\ last_copy_file = NoCopyFile
    /\ cancel_early = FALSE
    /\ copied = {}
    /\ faults = MaxFaults
    /\ nops = 0

\* ------------------------------------------------------------- controller

\* The batch has cleared its flags and has not started its first item.
NotYetStarted ==
    /\ Len(stk) = 1
    /\ \/ Top.fn = "copy" /\ (Top.pc = "calc" \/ (Top.pc = "loop" /\ Top.i = 1))
       \/ Top.fn = "delete" /\ Top.pc = "loop" /\ Top.i = 1

\* FileOperations.cancel
cancel ==
    /\ cancel_flag' = TRUE
    /\ cancel_early' = (cancel_early \/ NotYetStarted)
    /\ last_copy_file' =
           IF At("copy_file", "sleep")
           THEN [last_copy_file EXCEPT !.cancel_in_wait = TRUE]
           ELSE last_copy_file
    /\ UNCHANGED <<fs, xdev, pause_flag, progress, stk, ret, call, snap,
                   prev_snap, copied, faults, nops>>

\* FileOperations.pause
pause ==
    /\ pause_flag' = TRUE
    /\ UNCHANGED <<fs, xdev, cancel_flag, progress, stk, ret, call, snap,
                   prev_snap, last_copy_file, cancel_early, copied, faults, nops>>

\* FileOperations.resume
resume ==
    /\ pause_flag' = FALSE
    /\ UNCHANGED <<fs, xdev, cancel_flag, progress, stk, ret, call, snap,
                   prev_snap, last_copy_file, cancel_early, copied, faults, nops>>

\* A variant of is_cancelled that never sees the flag.
is_cancelled_blind == FALSE

\* FileOperations.is_cancelled / is_paused
is_cancelled == cancel_flag
is_paused == pause_flag

\* ------------------------------------------------------- top-level calls

NewCall(op, items, dst, verify, use_trash) ==
    [op |-> op, items |-> items, dst |-> dst, verify |-> verify,
     use_trash |-> use_trash, fs0 |-> fs, cancel0 |-> cancel_flag,
     errors0 |-> Len(progress.errors)]

Begin(fr, c, x) ==
    /\ Idle
    /\ xdev' = x
    /\ nops < MaxOps
    /\ nops' = nops + 1
    /\ stk' = <<fr>>
    /\ call' = c
    /\ snap' = NoSnap
    /\ prev_snap' = NoSnap
    /\ cancel_early' = FALSE
    /\ copied' = {}
    /\ last_copy_file' = NoCopyFile
    /\ UNCHANGED <<fs, cancel_flag, pause_flag, progress, ret, faults>>

\* The client calls copy(items, dest_dir, verify).
call_copy ==
    \E items \in ItemLists, verify \in BOOLEAN :
        Begin([Frame0 EXCEPT !.fn = "copy", !.pc = "start", !.items = items,
                             !.dst = D, !.verify = verify],
              NewCall("copy", items, D, verify, FALSE), FALSE)

\* The client calls move(items, dest_dir).
call_move ==
    \E items \in ItemLists, x \in BOOLEAN :
        Begin([Frame0 EXCEPT !.fn = "move", !.pc = "rename", !.items = items,
                             !.dst = D],
              NewCall("move", items, D, FALSE, FALSE), x)

\* The client calls delete(items, use_trash).
call_delete ==
    \E items \in ItemLists, use_trash \in BOOLEAN :
        Begin([Frame0 EXCEPT !.fn = "delete", !.pc = "start", !.items = items,
                             !.use_trash = use_trash],
              NewCall("delete", items, <<>>, FALSE, use_trash), FALSE)

\* The client calls copy_file(src, dst, verify) directly.
call_copy_file ==
    \E src \in {<<"s", "a">>, <<"s", "b">>}, verify \in BOOLEAN :
        Begin(CopyFileFrame(src, safe_join(D, Base(src)), verify),
              NewCall("copy_file", <<src>>, safe_join(D, Base(src)), verify, FALSE),
              FALSE)

\* ---------------------------------------------------------------- worker

Return(v) == stk' = Pop /\ ret' = v

\* FileOperations.report_progress: the callback receives a snapshot.
Report(pr) == snap' = to_dict(pr) /\ prev_snap' = snap
NoReport == UNCHANGED <<snap, prev_snap>>

\* int((bytes * 100) / total)
Percent(bytes, total) == (bytes * 100) \div total

\* copy_file up to the opening of both files: warnings, the size, the
\* destination's directory, open(src, 'rb') and open(dst, 'wb').
copy_file_begin ==
    /\ At("copy_file", "begin")
    /\ \E fault \in FaultChoices({"mkdir", "open"}) :
        LET src == Top.src
            dst == Top.dst
            w1 == IF Exists(fs, src) THEN progress
                  ELSE AddWarning(progress, "Cannot read source permissions")
            w2 == IF Exists(fs, dst) THEN AddWarning(w1, "Overwriting") ELSE w1
            sized == [w2 EXCEPT !.current_file = Base(src),
                                !.current_total = GetSize(fs, src),
                                !.current_bytes = 0, !.current_percent = 0]
            need_dir == ~Exists(fs, Parent(dst))
            made == IF need_dir THEN MakeDirs(fs, Parent(dst)) ELSE fs
            lcf == [NoCopyFile EXCEPT !.src = src, !.dst = dst,
                                      !.verify = Top.verify, !.phase = "running"]
            failed == [lcf EXCEPT !.phase = "returned", !.result = FALSE]
        IN  /\ faults' = Spend(fault)
            /\ IF ~Exists(fs, src)
               THEN \* os.path.getsize raises
                    /\ fault = "none"
                    /\ progress' = AddError(w2, "Failed to copy")
                    /\ fs' = fs
                    /\ last_copy_file' = failed
                    /\ Return(FALSE)
               ELSE IF fault = "mkdir"
               THEN /\ need_dir
                    /\ progress' = AddError(sized, "Cannot create directory")
                    /\ fs' = fs
                    /\ last_copy_file' = failed
                    /\ Return(FALSE)
               ELSE IF fault = "open" \/ ~IsFile(fs, src) \/ IsDir(made, dst)
                       \/ ~IsDir(made, Parent(dst))
               THEN /\ progress' = AddError(sized, "I/O error copying")
                    /\ fs' = made
                    /\ last_copy_file' = failed
                    /\ Return(FALSE)
               ELSE /\ progress' = sized
                    /\ fs' = Put(made, Real(made, dst), FileNode(<<>>))
                    /\ last_copy_file' = lcf
                    /\ stk' = SetTop([Top EXCEPT !.pc = "check", !.pos = 0])
                    /\ ret' = ret
    /\ UNCHANGED <<xdev, cancel_flag, pause_flag, call, snap, prev_snap,
                   cancel_early, copied, nops>>

\* The head of the chunk loop: if self.is_cancelled(): return False
copy_file_check ==
    /\ At("copy_file", "check")
    /\ IF is_cancelled
       THEN /\ Return(FALSE)
            /\ last_copy_file' = [last_copy_file EXCEPT !.phase = "returned",
                                                        !.result = FALSE]
       ELSE /\ stk' = SetTop([Top EXCEPT !.pc = "wait"])
            /\ ret' = ret
            /\ last_copy_file' = last_copy_file
    /\ UNCHANGED <<fs, xdev, cancel_flag, pause_flag, progress, call, snap,
                   prev_snap, cancel_early, copied, faults, nops>>

\* A variant of the wait condition that never holds the worker back.
MustWait_never == FALSE

\* The condition of wait_if_paused's loop.
MustWait == pause_flag /\ ~cancel_flag

\* wait_if_paused: one more time.sleep(0.1).  waited records that a copy_file
\* call made directly by the client has been through the wait.
wait_if_paused ==
    /\ ~Idle /\ Top.fn = "copy_file" /\ Top.pc \in {"wait", "sleep"}
    /\ MustWait
    /\ stk' = SetTop([Top EXCEPT !.pc = "sleep"])
    /\ last_copy_file' = [last_copy_file EXCEPT !.waited = (call.op = "copy_file")]
    /\ UNCHANGED <<fs, xdev, cancel_flag, pause_flag, progress, ret, call, snap,
                   prev_snap, cancel_early, copied, faults, nops>>

\* wait_if_paused returns; one chunk is read and written and the counters move;
\* when the 100 ms timer has run out the percentages are recomputed and reported.
copy_file_chunk ==
    /\ ~Idle /\ Top.fn = "copy_file" /\ Top.pc \in {"wait", "sleep"}
    /\ ~MustWait
    /\ \E fault \in FaultChoices({"read", "corrupt"}), tick \in BOOLEAN :
        LET src == Top.src
            dst == Top.dst
            size == IF IsFile(fs, src) THEN GetSize(fs, src) ELSE 0
            eof == Top.pos >= size
            chunk == IF fault = "corrupt" THEN 0 ELSE Data(fs, src)[Top.pos + 1]
            counted == [progress EXCEPT !.current_bytes = @ + 1,
                                        !.overall_bytes = @ + 1]
            timed == [counted EXCEPT
                        !.current_percent =
                            IF counted.current_total > 0
                            THEN Percent(counted.current_bytes, counted.current_total)
                            ELSE @,
                        !.overall_percent =
                            IF counted.overall_total > 0
                            THEN Percent(counted.overall_bytes, counted.overall_total)
                            ELSE @]
        IN  /\ faults' = Spend(fault)
            /\ IF fault = "read"
               THEN /\ ~tick
                    /\ progress' = AddError(progress, "I/O error copying")
                    /\ fs' = fs
                    /\ NoReport
                    /\ last_copy_file' = [last_copy_file EXCEPT !.phase = "returned",
                                                                !.result = FALSE]
                    /\ Return(FALSE)
               ELSE IF eof
               THEN /\ ~tick /\ fault = "none"
                    /\ UNCHANGED <<progress, fs, last_copy_file, ret>>
                    /\ NoReport
                    /\ stk' = SetTop([Top EXCEPT !.pc = "finish"])
               ELSE /\ fs' = [fs EXCEPT ![Real(fs, dst)].data = Append(@, chunk)]
                    /\ progress' = IF tick THEN timed ELSE counted
                    /\ IF tick THEN Report(timed) ELSE NoReport
                    /\ stk' = SetTop([Top EXCEPT !.pc = "check", !.pos = @ + 1])
                    /\ UNCHANGED <<last_copy_file, ret>>
    /\ UNCHANGED <<xdev, cancel_flag, pause_flag, call, cancel_early, copied, nops>>

\* A variant of verify_file that accepts every pair of files.
verify_file_trusting(f, file1, file2, raises) == TRUE

\* verify_file: both digests are computed and compared; any exception is False.
verify_file(f, file1, file2, raises) ==
    ~raises /\ calculate_md5(f, file1) = calculate_md5(f, file2)

\* After the loop: the metadata (a failure is a warning), then the verification;
\* a failed one records an error and removes the destination.
copy_file_finish ==
    /\ At("copy_file", "finish")
    /\ \E fault \in FaultChoices({"meta", "chmod", "chown", "hash", "rmfail"}) :
        LET src == Top.src
            dst == Top.dst
            \* shutil.copystat, os.chmod or (as root) os.chown raises
            noted == CASE fault = "meta"
                            -> AddWarning(progress, "Cannot copy metadata")
                       [] fault = "chmod"
                            -> AddWarning(progress, "Cannot preserve permissions")
                       [] OTHER -> progress
            meta == IF fault \in {"meta", "chmod", "chown"} THEN fault ELSE "ok"
            match == verify_file(fs, src, dst, fault = "hash")
        IN  /\ faults' = Spend(fault)
            /\ fault \in {"hash", "rmfail"} => Top.verify
            /\ IF Top.verify /\ ~match
               THEN /\ progress' = AddError(noted, "Verification failed")
                    /\ fs' = IF fault = "rmfail" THEN fs ELSE RemoveTree(fs, Real(fs, dst))
                    /\ last_copy_file' = [last_copy_file EXCEPT
                                             !.phase = "returned", !.result = FALSE,
                                             !.meta = meta,
                                             !.verified = IF fault = "rmfail"
                                                          THEN "kept" ELSE "fail"]
                    /\ Return(FALSE)
               ELSE /\ fault # "rmfail"
                    /\ progress' = noted
                    /\ fs' = fs
                    /\ last_copy_file' = [last_copy_file EXCEPT
                                             !.phase = "returned", !.result = TRUE,
                                             !.meta = meta,
                                             !.verified = IF Top.verify THEN "pass" ELSE "no"]
                    /\ Return(TRUE)
    /\ UNCHANGED <<xdev, cancel_flag, pause_flag, call, snap, prev_snap,
                   cancel_early, copied, nops>>

RECURSIVE SumSizes(_, _)
SumSizes(f, ps) ==
    IF ps = {} THEN 0
    ELSE LET p == CHOOSE x \in ps : TRUE
         IN  Len(f[p].data) + SumSizes(f, ps \ {p})

\* The entries os.walk hands to the size loop that pass
\* "os.path.exists(filepath) and not os.path.islink(filepath)".
WalkFiles(f, d) ==
    {p \in DOMAIN f : IsPrefix(Real(f, d), p) /\ p # Real(f, d) /\ f[p].kind = "file"}

\* One item of calculate_total_size: <<bytes, files>> added to the totals.
ItemSize(f, item) ==
    IF IsFile(f, item) THEN <<GetSize(f, item), 1>>
    ELSE IF IsDir(f, item)
    THEN <<SumSizes(f, WalkFiles(f, item)), Cardinality(WalkFiles(f, item))>>
    ELSE <<0, 0>>

\* copy: progress.reset(), cancel_flag.clear(), pause_flag.clear()
copy_start ==
    /\ At("copy", "start")
    /\ progress' = reset
    /\ cancel_flag' = FALSE
    /\ pause_flag' = FALSE
    /\ stk' = SetTop([Top EXCEPT !.pc = "calc", !.i = 1, !.total_size = 0,
                                 !.file_count = 0])
    /\ UNCHANGED <<fs, xdev, ret, call, snap, prev_snap, last_copy_file,
                   cancel_early, copied, faults, nops>>

\* calculate_total_size: one item of its loop.
calculate_total_size ==
    /\ At("copy", "calc")
    /\ Top.i <= Len(Top.items)
    /\ ~is_cancelled
    /\ \E fault \in FaultChoices({"stat"}) :
        LET item == Top.items[Top.i]
            add == ItemSize(fs, item)
        IN  /\ faults' = Spend(fault)
            /\ fault = "stat" => IsFile(fs, item)
            /\ IF fault = "stat"
               THEN /\ progress' = AddWarning(progress, "Cannot read size")
                    /\ stk' = SetTop([Top EXCEPT !.i = @ + 1])
               ELSE /\ progress' = progress
                    /\ stk' = SetTop([Top EXCEPT !.i = @ + 1,
                                                 !.total_size = @ + add[1],
                                                 !.file_count = @ + add[2]])
    /\ UNCHANGED <<fs, xdev, cancel_flag, pause_flag, ret, call, snap, prev_snap,
                   last_copy_file, cancel_early, copied, nops>>

\* copy after the size loop: the totals are stored, a cancelled batch returns
\* False, the destination directory is created when missing.
copy_seed ==
    /\ At("copy", "calc")
    /\ Top.i > Len(Top.items) \/ is_cancelled
    /\ \E fault \in FaultChoices({"mkdir"}) :
        LET seeded == [progress EXCEPT !.overall_total = Top.total_size,
                                       !.files_total = Top.file_count]
        IN  /\ faults' = Spend(fault)
            /\ fault = "mkdir" => (~is_cancelled /\ ~Exists(fs, Top.dst))
            /\ IF is_cancelled
               THEN progress' = seeded /\ fs' = fs /\ Return(FALSE)
               ELSE IF fault = "mkdir"
               THEN /\ progress' = AddError(seeded, "Cannot create destination directory")
                    /\ fs' = fs
                    /\ Return(FALSE)
               ELSE /\ progress' = seeded
                    /\ fs' = IF Exists(fs, Top.dst) THEN fs ELSE MakeDirs(fs, Top.dst)
                    /\ stk' = SetTop([Top EXCEPT !.pc = "loop", !.i = 1,
                                                 !.success = TRUE])
                    /\ ret' = ret
    /\ UNCHANGED <<xdev, cancel_flag, pause_flag, call, snap, prev_snap,
                   last_copy_file, cancel_early, copied, nops>>

\* copy: the head of "for item in items" and the dispatch on the item's kind.
copy_loop ==
    /\ At("copy", "loop")
    /\ LET item == Top.items[Top.i]
           dest_path == safe_join(Top.dst, Base(item))
       IN  IF Top.i > Len(Top.items)
           THEN stk' = SetTop([Top EXCEPT !.pc = "final"])
           ELSE IF is_cancelled
           THEN stk' = SetTop([Top EXCEPT !.pc = "final", !.success = FALSE])
           ELSE IF IsFile(fs, item)
           THEN stk' = Push("after_file", CopyFileFrame(item, dest_path, Top.verify))
           ELSE IF IsDir(fs, item)
           THEN stk' = Push("after_dir", CopyDirectoryFrame(item, dest_path, Top.verify))
           ELSE stk' = SetTop([Top EXCEPT !.i = @ + 1])
    /\ UNCHANGED <<fs, xdev, cancel_flag, pause_flag, progress, ret, call, snap,
                   prev_snap, last_copy_file, cancel_early, copied, faults, nops>>

\* A variant of copy_after_file that leaves the loop at the first failed item.
copy_after_file_stopping ==
    /\ At("copy", "after_file")
    /\ IF ~ret
       THEN /\ stk' = SetTop([Top EXCEPT !.pc = "final", !.success = FALSE])
            /\ UNCHANGED <<progress, copied>>
       ELSE /\ stk' = SetTop([Top EXCEPT !.pc = "loop", !.i = @ + 1])
            /\ progress' = [progress EXCEPT !.files_done = @ + 1]
            /\ copied' = IF Len(stk) = 1 THEN copied \cup {Top.i} ELSE copied
    /\ UNCHANGED <<fs, xdev, cancel_flag, pause_flag, ret, call, snap, prev_snap,
                   last_copy_file, cancel_early, faults, nops>>

\* copy after copy_file returned: a failure clears success and, when cancelled,
\* leaves the loop; otherwise files_done is incremented.
copy_after_file ==
    /\ At("copy", "after_file")
    /\ IF ~ret /\ is_cancelled
       THEN /\ stk' = SetTop([Top EXCEPT !.pc = "final", !.success = FALSE])
            /\ UNCHANGED <<progress, copied>>
       ELSE /\ stk' = SetTop([Top EXCEPT !.pc = "loop", !.i = @ + 1,
                                         !.success = @ /\ ret])
            /\ progress' = [progress EXCEPT !.files_done = @ + 1]
            /\ copied' = IF ret /\ Len(stk) = 1 THEN copied \cup {Top.i} ELSE copied
    /\ UNCHANGED <<fs, xdev, cancel_flag, pause_flag, ret, call, snap, prev_snap,
                   last_copy_file, cancel_early, faults, nops>>

\* copy after copy_directory returned.
copy_after_dir ==
    /\ At("copy", "after_dir")
    /\ IF ~ret /\ is_cancelled
       THEN /\ stk' = SetTop([Top EXCEPT !.pc = "final", !.success = FALSE])
            /\ UNCHANGED copied
       ELSE /\ stk' = SetTop([Top EXCEPT !.pc = "loop", !.i = @ + 1,
                                         !.success = @ /\ ret])
            /\ copied' = IF ret /\ Len(stk) = 1 THEN copied \cup {Top.i} ELSE copied
    /\ UNCHANGED <<fs, xdev, cancel_flag, pause_flag, progress, ret, call, snap,
                   prev_snap, last_copy_file, cancel_early, faults, nops>>

\* copy: the final progress update, 100% unless cancelled.
copy_final ==
    /\ At("copy", "final")
    /\ LET full == [progress EXCEPT !.overall_percent = 100,
                                    !.current_percent = 100]
       IN  IF is_cancelled
           THEN progress' = progress /\ NoReport
           ELSE progress' = full /\ Report(full)
    /\ stk' = SetTop([Top EXCEPT !.pc = "ret"])
    /\ UNCHANGED <<fs, xdev, cancel_flag, pause_flag, ret, call, last_copy_file,
                   cancel_early, copied, faults, nops>>

\* copy: return success and not self.is_cancelled()
copy_return ==
    /\ At("copy", "ret")
    /\ Return(Top.success /\ ~is_cancelled)
    /\ UNCHANGED <<fs, xdev, cancel_flag, pause_flag, progress, call, snap,
                   prev_snap, last_copy_file, cancel_early, copied, faults, nops>>

\* copy_directory up to its loop: the destination directory, its permissions,
\* the listing of the source directory ([] when os.listdir raises).
copy_directory_begin ==
    /\ At("copy_directory", "begin")
    /\ \E fault \in FaultChoices({"mkdir", "meta", "listdir"}) :
        LET need_dir == ~Exists(fs, Top.dst)
            made == IF need_dir THEN MakeDirs(fs, Top.dst) ELSE fs
            listing == IF fault = "listdir" THEN <<>> ELSE safe_listdir(made, Top.src)
        IN  /\ faults' = Spend(fault)
            /\ fault = "mkdir" => need_dir
            /\ fault = "listdir" => safe_listdir(made, Top.src) # <<>>
            /\ IF Len(stk) > MaxDepth
               THEN \* RecursionError, caught by the outer handler
                    /\ fault = "none"
                    /\ progress' = AddError(progress, "Error copying directory")
                    /\ fs' = fs
                    /\ Return(FALSE)
               ELSE IF fault = "mkdir"
               THEN /\ progress' = AddError(progress, "Cannot create directory")
                    /\ fs' = fs
                    /\ Return(FALSE)
               ELSE /\ progress' = IF fault = "meta"
                                   THEN AddWarning(progress, "Cannot set permissions")
                                   ELSE progress
                    /\ fs' = made
                    /\ stk' = SetTop([Top EXCEPT
                                        !.pc = "loop", !.i = 1,
                                        !.items = [k \in 1..Len(listing) |-> <<listing[k]>>]])
                    /\ ret' = ret
    /\ UNCHANGED <<xdev, cancel_flag, pause_flag, call, snap, prev_snap,
                   last_copy_file, cancel_early, copied, nops>>

\* copy_directory: the head of "for item in safe_listdir(src_dir)".
copy_directory_loop ==
    /\ At("copy_directory", "loop")
    /\ LET item == Top.items[Top.i][1]
           src_path == safe_join(Top.src, item)
           dst_path == safe_join(Top.dst, item)
       IN  IF Top.i > Len(Top.items)
           THEN Return(TRUE)
           ELSE IF is_cancelled
           THEN Return(FALSE)
           ELSE IF IsFile(fs, src_path)
           THEN /\ stk' = Push("after_file", CopyFileFrame(src_path, dst_path, Top.verify))
                /\ ret' = ret
           ELSE IF IsDir(fs, src_path)
           THEN /\ stk' = Push("after_dir",
                               CopyDirectoryFrame(src_path, dst_path, Top.verify))
                /\ ret' = ret
           ELSE /\ stk' = SetTop([Top EXCEPT !.i = @ + 1])
                /\ ret' = ret
    /\ UNCHANGED <<fs, xdev, cancel_flag, pause_flag, progress, call, snap,
                   prev_snap, last_copy_file, cancel_early, copied, faults, nops>>

\* copy_directory after copy_file returned.
copy_directory_after_file ==
    /\ At("copy_directory", "after_file")
    /\ IF ~ret
       THEN Return(FALSE) /\ progress' = progress
       ELSE /\ progress' = [progress EXCEPT !.files_done = @ + 1]
            /\ stk' = SetTop([Top EXCEPT !.pc = "loop", !.i = @ + 1])
            /\ ret' = ret
    /\ UNCHANGED <<fs, xdev, cancel_flag, pause_flag, call, snap, prev_snap,
                   last_copy_file, cancel_early, copied, faults, nops>>

\* copy_directory after the recursive call returned.
copy_directory_after_dir ==
    /\ At("copy_directory", "after_dir")
    /\ IF ~ret
       THEN Return(FALSE)
       ELSE /\ stk' = SetTop([Top EXCEPT !.pc = "loop", !.i = @ + 1])
            /\ ret' = ret
    /\ UNCHANGED <<fs, xdev, cancel_flag, pause_flag, progress, call, snap,
                   prev_snap, last_copy_file, cancel_early, copied, faults, nops>>

\* _try_rename_move: one item of its loop.  It gives up (returns False) when
\* cancelled, when the destination name exists or when os.rename raises; it
\* returns True, and so does move, after the last item.
try_rename_move ==
    /\ At("move", "rename")
    /\ \E fault \in FaultChoices({"rename"}) :
        LET item == Top.items[Top.i]
            dest_path == safe_join(Top.dst, Base(item))
            raises == fault = "rename" \/ xdev \/ ~LExists(fs, item)
                      \/ ~IsDir(fs, Top.dst)
        IN  /\ faults' = Spend(fault)
            /\ fault = "rename" =>
                   (Top.i <= Len(Top.items) /\ ~is_cancelled /\ ~Exists(fs, dest_path))
            /\ IF Top.i > Len(Top.items)
               THEN fs' = fs /\ Return(TRUE)
               ELSE IF is_cancelled \/ Exists(fs, dest_path) \/ raises
               THEN /\ fs' = fs
                    /\ stk' = SetTop([Top EXCEPT !.pc = "fallback"])
                    /\ ret' = ret
               ELSE /\ fs' = Rename(fs, item, dest_path)
                    /\ stk' = SetTop([Top EXCEPT !.i = @ + 1])
                    /\ ret' = ret
    /\ UNCHANGED <<xdev, cancel_flag, pause_flag, progress, call, snap, prev_snap,
                   last_copy_file, cancel_early, copied, nops>>

\* move: the rename attempt failed; self.copy(items, dest_dir, verify=False)
move_fallback ==
    /\ At("move", "fallback")
    /\ stk' = Push("after_copy",
                   [Frame0 EXCEPT !.fn = "copy", !.pc = "start",
                                  !.items = Top.items, !.dst = Top.dst])
    /\ UNCHANGED <<fs, xdev, cancel_flag, pause_flag, progress, ret, call, snap,
                   prev_snap, last_copy_file, cancel_early, copied, faults, nops>>

\* move: after the copy, self.delete(items, use_trash=False) or return False
move_after_copy ==
    /\ At("move", "after_copy")
    /\ IF ret
       THEN /\ stk' = Push("after_delete",
                           [Frame0 EXCEPT !.fn = "delete", !.pc = "start",
                                          !.items = Top.items])
            /\ ret' = ret
       ELSE Return(FALSE)
    /\ UNCHANGED <<fs, xdev, cancel_flag, pause_flag, progress, call, snap,
                   prev_snap, last_copy_file, cancel_early, copied, faults, nops>>

\* move: return self.delete(...)
move_after_delete ==
    /\ At("move", "after_delete")
    /\ Return(ret)
    /\ UNCHANGED <<fs, xdev, cancel_flag, pause_flag, progress, call, snap,
                   prev_snap, last_copy_file, cancel_early, copied, faults, nops>>

\* A variant of delete_start that keeps the trash mode when the trash
\* directory cannot be created.
delete_start_keeps_trash ==
    /\ At("delete", "start")
    /\ \E fault \in FaultChoices({"mkdir"}) :
        LET need_dir == Top.use_trash /\ ~Exists(fs, TRASH)
        IN  /\ faults' = Spend(fault)
            /\ fault = "mkdir" => need_dir
            /\ fs' = IF need_dir /\ fault = "none" THEN MakeDirs(fs, TRASH) ELSE fs
            /\ stk' = SetTop([Top EXCEPT !.pc = "loop", !.i = 1, !.success = TRUE])
    /\ progress' = [reset EXCEPT !.files_total = Len(Top.items)]
    /\ cancel_flag' = FALSE
    /\ pause_flag' = FALSE
    /\ UNCHANGED <<xdev, ret, call, snap, prev_snap, last_copy_file, cancel_early,
                   copied, nops>>

\* delete: progress.reset(), the flags cleared, files_total, the trash directory
\* (when it cannot be created the batch deletes permanently).
delete_start ==
    /\ At("delete", "start")
    /\ \E fault \in FaultChoices({"mkdir"}) :
        LET need_dir == Top.use_trash /\ ~Exists(fs, TRASH)
        IN  /\ faults' = Spend(fault)
            /\ fault = "mkdir" => need_dir
            /\ fs' = IF need_dir /\ fault = "none" THEN MakeDirs(fs, TRASH) ELSE fs
            /\ stk' = SetTop([Top EXCEPT !.pc = "loop", !.i = 1, !.success = TRUE,
                                         !.use_trash = @ /\ fault = "none"])
    /\ progress' = [reset EXCEPT !.files_total = Len(Top.items)]
    /\ cancel_flag' = FALSE
    /\ pause_flag' = FALSE
    /\ UNCHANGED <<xdev, ret, call, snap, prev_snap, last_copy_file, cancel_early,
                   copied, nops>>

RECURSIVE TrashPath(_, _, _)
\* The first free name in the trash: the basename, then name_1, name_2, ...
TrashPath(f, name, counter) ==
    LET candidate == IF counter = 0 THEN name
                     ELSE name \o "_" \o ToString(counter)
    IN  IF Exists(f, safe_join(TRASH, candidate))
        THEN TrashPath(f, name, counter + 1)
        ELSE safe_join(TRASH, candidate)

\* delete: one item: the progress update and its report, then the move to the
\* trash or the permanent removal; an exception is recorded as an error.
delete_loop ==
    /\ At("delete", "loop")
    /\ \E fault \in FaultChoices({"move", "unlink", "rmtree"}) :
        LET n == Len(Top.items)
            item == Top.items[Top.i]
            shown == [progress EXCEPT !.current_file = Base(item),
                                      !.files_done = Top.i,
                                      !.overall_percent = Percent(Top.i, n)]
            as_file == IsFile(fs, item) \/ IsLink(fs, item)
            trash_path == TrashPath(fs, Base(item), 0)
            \* shutil.move raises: no such item, or a directory moved onto a
            \* name that os.path.exists does not see (a dangling link)
            move_raises == \/ ~LExists(fs, item)
                           \/ LExists(fs, trash_path) /\ fs[item].kind = "dir"
            failed == [Top EXCEPT !.i = @ + 1, !.success = FALSE]
            done == [Top EXCEPT !.i = @ + 1]
        IN  /\ faults' = Spend(fault)
            /\ fault # "none" => (Top.i <= n /\ ~is_cancelled)
            /\ fault = "move" => Top.use_trash
            /\ fault = "unlink" => (~Top.use_trash /\ as_file)
            /\ fault = "rmtree" => (~Top.use_trash /\ ~as_file /\ IsDir(fs, item))
            /\ IF Top.i > n
               THEN /\ stk' = SetTop([Top EXCEPT !.pc = "final"])
                    /\ UNCHANGED <<fs, progress>> /\ NoReport
               ELSE IF is_cancelled
               THEN /\ stk' = SetTop([Top EXCEPT !.pc = "final", !.success = FALSE])
                    /\ UNCHANGED <<fs, progress>> /\ NoReport
               ELSE /\ Report(shown)
                    /\ IF Top.use_trash
                       THEN IF fault = "move" \/ move_raises
                            THEN /\ fs' = fs
                                 /\ progress' = AddError(shown, "Cannot delete")
                                 /\ stk' = SetTop(failed)
                            ELSE /\ fs' = Rename(fs, item, trash_path)
                                 /\ progress' = shown
                                 /\ stk' = SetTop(done)
                       ELSE IF fault = "unlink"
                            THEN /\ fs' = fs
                                 /\ progress' = AddError(shown, "Cannot delete")
                                 /\ stk' = SetTop(failed)
                            ELSE /\ fs' = IF fault = "rmtree"
                                             \/ ~(as_file \/ IsDir(fs, item))
                                          THEN fs
                                          ELSE RemoveTree(fs, item)
                                 /\ progress' = shown
                                 /\ stk' = SetTop(done)
    /\ UNCHANGED <<xdev, cancel_flag, pause_flag, ret, call, last_copy_file,
                   cancel_early, copied, nops>>

\* delete: the final progress update, 100% unless cancelled.
delete_final ==
    /\ At("delete", "final")
    /\ LET full == [progress EXCEPT !.overall_percent = 100]
       IN  IF is_cancelled
           THEN progress' = progress /\ NoReport
           ELSE progress' = full /\ Report(full)
    /\ stk' = SetTop([Top EXCEPT !.pc = "ret"])
    /\ UNCHANGED <<fs, xdev, cancel_flag, pause_flag, ret, call, last_copy_file,
                   cancel_early, copied, faults, nops>>

\* delete: return success and not self.is_cancelled()
delete_return ==
    /\ At("delete", "ret")
    /\ Return(Top.success /\ ~is_cancelled)
    /\ UNCHANGED <<fs, xdev, cancel_flag, pause_flag, progress, call, snap,
                   prev_snap, last_copy_file, cancel_early, copied, faults, nops>>

Control == cancel \/ pause \/ resume
Client == call_copy \/ call_move \/ call_delete \/ call_copy_file
Worker ==
    \/ copy_file_begin \/ copy_file_check \/ wait_if_paused \/ copy_file_chunk
    \/ copy_file_finish
    \/ copy_start \/ calculate_total_size \/ copy_seed \/ copy_loop
    \/ copy_after_file \/ copy_after_dir \/ copy_final \/ copy_return
    \/ copy_directory_begin \/ copy_directory_loop \/ copy_directory_after_file
    \/ copy_directory_after_dir
    \/ try_rename_move \/ move_fallback \/ move_after_copy \/ move_after_delete
    \/ delete_start \/ delete_loop \/ delete_final \/ delete_return
Next == Control \/ Client \/ Worker
Spec == Init /\ [][Next]_vars

\* copy_file called directly, the worker thread scheduled fairly.
CopyFileWorker ==
    \/ copy_file_begin \/ copy_file_check \/ wait_if_paused \/ copy_file_chunk
    \/ copy_file_finish
NextCopyFile == Control \/ call_copy_file \/ CopyFileWorker
SpecCopyFile == Init /\ [][NextCopyFile]_vars /\ WF_vars(CopyFileWorker)

\* delete to the trash, over trashes of several shapes and batches whose
\* items share a basename.
TrashShapes == {"absent", "empty", "has_a", "has_link"}

\* What the trash directory holds before the call: nothing, a file a, or a
\* dangling symbolic link a (a link trashed earlier).
TrashTree(shape) ==
    CASE shape = "absent" -> <<>>
      [] shape = "empty" -> (TRASH :> DirNode)
      [] shape = "has_a" -> (TRASH :> DirNode) @@ (<<"t", "a">> :> FileNode(<<7>>))
      [] shape = "has_link" -> (TRASH :> DirNode)
                               @@ (<<"t", "a">> :> LinkNode(<<"s", "zz">>))

DeleteItemLists ==
    {<< <<"s", "a">>, <<"s", "b">> >>,
     << <<"s", "a">>, <<"d", "a">> >>,
     << <<"s", "a">>, <<"s", "b">>, <<"d", "a">> >>}

InitDelete ==
    /\ \E a \in SourceShapes, t \in TrashShapes :
           fs = SourceTree(a) @@ (<<"s", "b">> :> FileNode(<<2>>))
                @@ (D :> DirNode) @@ (<<"d", "a">> :> FileNode(<<9>>))
                @@ TrashTree(t)
    /\ xdev = FALSE
    /\ cancel_flag = FALSE
    /\ pause_flag = FALSE
    /\ progress = reset
    /\ stk = <<>>
    /\ ret = FALSE
    /\ call = NoCall
    /\ snap = NoSnap
    /\ prev_snap = NoSnap
    /\ last_copy_file = NoCopyFile
    /\ cancel_early = FALSE
    /\ copied = {}
    /\ faults = MaxFaults
    /\ nops = 0

\* The client calls delete(items, use_trash=True).
call_delete_to_trash ==
    \E items \in DeleteItemLists :
        Begin([Frame0 EXCEPT !.fn = "delete", !.pc = "start", !.items = items,
                             !.use_trash = TRUE],
              NewCall("delete", items, <<>>, FALSE, TRUE), FALSE)

DeleteWorker == delete_start \/ delete_loop \/ delete_final \/ delete_return
NextDelete == Control \/ call_delete_to_trash \/ DeleteWorker
SpecDelete == InitDelete /\ [][NextDelete]_vars

\* ------------------------------------------------- single-call operations
\* rename, create_directory, create_file, set_permissions, set_ownership and
\* copy_permissions run to their return in one step of the calling thread.
\* The nodes of the filesystem carry a mode and an owner here.

WithMeta(node, mode, uid, gid) == node @@ [mode |-> mode, uid |-> uid, gid |-> gid]

\* The filesystem before the call: the files s/a (rw-r--r--) and s/b
\* (rw-------), the dangling link s/l, the directories s/c and d.
MetaFS ==
    (S :> WithMeta(DirNode, 493, 1000, 1000))
    @@ (<<"s", "a">> :> WithMeta(FileNode(<<1>>), 420, 1000, 1000))
    @@ (<<"s", "b">> :> WithMeta(FileNode(<<2>>), 384, 0, 0))
    @@ (<<"s", "l">> :> WithMeta(LinkNode(<<"s", "zz">>), 511, 1000, 1000))
    @@ (<<"s", "c">> :> WithMeta(DirNode, 493, 1000, 1000))
    @@ (D :> WithMeta(DirNode, 493, 0, 0))

InitSingle ==
    /\ fs = MetaFS
    /\ xdev = FALSE
    /\ cancel_flag = FALSE
    /\ pause_flag = FALSE
    /\ progress = reset
    /\ stk = <<>>
    /\ ret = FALSE
    /\ call = NoCall
    /\ snap = NoSnap
    /\ prev_snap = NoSnap
    /\ last_copy_file = NoCopyFile
    /\ cancel_early = FALSE
    /\ copied = {}
    /\ faults = MaxFaults
    /\ nops = 0

\* A single-call operation: called and returned.  root: the process runs with
\* effective uid 0.
Called(limit, op, args, root, v, f, pr) ==
    /\ Idle
    /\ nops < limit
    /\ nops' = nops + 1
    /\ call' = [args |-> args, root |-> root,
                prev |-> IF call.op = "none" THEN <<>> ELSE <<call.op, call.args, ret>>]
                @@ NewCall(op, <<>>, <<>>, FALSE, FALSE)
    /\ ret' = v
    /\ fs' = f
    /\ progress' = pr
    /\ UNCHANGED <<xdev, cancel_flag, pause_flag, stk, snap, prev_snap,
                   last_copy_file, cancel_early, copied>>

Single(op, args, root, v, f, pr) == Called(MaxOps, op, args, root, v, f, pr)

\* str.isdigit for the characters used here
IsDigit(c) == c \in {"0", "1", "2", "3", "4", "5", "6", "7", "8", "9"}
DigitValue(c) ==
    CASE c = "0" -> 0 [] c = "1" -> 1 [] c = "2" -> 2 [] c = "3" -> 3
      [] c = "4" -> 4 [] c = "5" -> 5 [] c = "6" -> 6 [] c = "7" -> 7
      [] c = "8" -> 8 [] c = "9" -> 9

RECURSIVE DecimalValue(_, _)
\* A variant that reads the digits in base ten.
DecimalValue(acc, chars) ==
    IF chars = <<>> THEN acc
    ELSE DecimalValue(acc * 10 + DigitValue(Head(chars)), Tail(chars))

RECURSIVE OctalValue(_, _)
\* int(permissions, 8) for a string of octal digits
OctalValue(acc, chars) ==
    IF chars = <<>> THEN acc
    ELSE OctalValue(acc * 8 + DigitValue(Head(chars)), Tail(chars))

\* stat.S_IRUSR ... stat.S_IXOTH and the letter that sets each
PermBits == <<256, 128, 64, 32, 16, 8, 4, 2, 1>>
PermLetters == <<"r", "w", "x", "r", "w", "x", "r", "w", "x">>

RECURSIVE SymbolicValue(_, _)
\* The nine tests of the symbolic notation, from position k on.
SymbolicValue(perm_str, k) ==
    IF k > 9 THEN 0
    ELSE (IF perm_str[k] = PermLetters[k] THEN PermBits[k] ELSE 0)
         + SymbolicValue(perm_str, k + 1)

\* A variant that takes the first nine characters.
First9(chars) == SubSeq(chars, 1, 9)

\* permissions[-9:]
Last9(chars) == SubSeq(chars, Len(chars) - 8, Len(chars))

\* set_permissions, the computation of mode: <<"mode", m>>, <<"invalid">> for
\* a string in neither notation, <<"raise">> when int(permissions, 8) raises.
\* A permissions argument is <<"int", n>> or <<"str", characters>>.
ParseMode(permissions) ==
    IF permissions[1] = "int" THEN <<"mode", permissions[2]>>
    ELSE LET chars == permissions[2]
         IN  IF chars # <<>> /\ \A k \in 1..Len(chars) : IsDigit(chars[k])
             THEN IF \E k \in 1..Len(chars) : DigitValue(chars[k]) > 7
                  THEN <<"raise">>
                  ELSE <<"mode", OctalValue(0, chars)>>
             ELSE IF Len(chars) = 9 \/ Len(chars) = 10
             THEN <<"mode", SymbolicValue(Last9(chars), 1)>>
             ELSE <<"invalid">>

\* os.chmod(path, mode): follows symbolic links
Chmod(f, path, mode) == [f EXCEPT ![Real(f, path)].mode = mode]
\* os.chown(path, uid, gid): -1 leaves the id alone
Chown(f, path, uid, gid) ==
    [f EXCEPT ![Real(f, path)].uid = IF uid = -1 THEN @ ELSE uid,
              ![Real(f, path)].gid = IF gid = -1 THEN @ ELSE gid]

MetaPaths == {<<"s", "a">>, <<"s", "b">>, <<"s", "zz">>}

PermArgs ==
    {<<"int", 493>>,
     <<"str", <<"7", "5", "5">> >>,
     <<"str", <<"6", "4", "4">> >>,
     <<"str", <<"7", "8", "9">> >>,
     <<"str", <<"r", "w", "x", "r", "-", "x", "r", "-", "x">> >>,
     <<"str", <<"-", "r", "w", "-", "r", "-", "-", "r", "-", "-">> >>,
     <<"str", <<"u", "+", "x">> >>,
     <<"str", <<"7", "7", "7", "7">> >>,
     <<"str", <<"x", "x", "x", "x", "x", "x", "x", "x", "x">> >>,
     <<"str", <<>> >>}

\* The body of set_permissions(path, permissions), called as op (itself or one
\* of the presets that delegate to it).
SetPermissions(limit, op, path, permissions, fault) ==
    LET parsed == ParseMode(permissions)
        raises == parsed[1] = "raise" \/ fault = "chmod" \/ ~Exists(fs, path)
    IN  /\ faults' = Spend(fault)
        /\ fault = "chmod" => (parsed[1] = "mode" /\ Exists(fs, path))
        /\ IF parsed[1] = "invalid"
           THEN Called(limit, op, <<path, permissions>>, FALSE, FALSE, fs, progress)
           ELSE IF raises
           THEN Called(limit, op, <<path, permissions>>, FALSE, FALSE, fs,
                       AddError(progress, "Cannot set permissions"))
           ELSE Called(limit, op, <<path, permissions>>, FALSE, TRUE,
                       Chmod(fs, path, parsed[2]), progress)

\* FileOperations.set_permissions
set_permissions ==
    \E path \in MetaPaths, permissions \in PermArgs, fault \in FaultChoices({"chmod"}) :
        SetPermissions(MaxOps, "set_permissions", path, permissions, fault)

\* A user or group argument: None, an id, or a name.
IdArgs == {<<"none">>, <<"int", 0>>, <<"name", "root">>, <<"name", "ghost">>}

\* A variant of the lookup in which every name is known.
NameId_any(name) == 0

\* pwd.getpwnam / grp.getgrnam: the id of a name, -2 for a KeyError
NameId(name) == IF name = "root" THEN 0 ELSE -2
\* The uid or gid an argument stands for: -1 leaves it alone.
ArgId(arg) ==
    CASE arg[1] = "none" -> -1
      [] arg[1] = "int" -> arg[2]
      [] arg[1] = "name" -> NameId(arg[2])

\* FileOperations.set_ownership
set_ownership ==
    \E path \in MetaPaths, user \in IdArgs, group \in IdArgs, root \in BOOLEAN,
       fault \in FaultChoices({"chown"}) :
        LET uid == ArgId(user)
            gid == ArgId(group)
            args == <<path, user, group>>
            fail(msg) == Single("set_ownership", args, root, FALSE, fs,
                                AddError(progress, msg))
            reaches_chown == uid # -2 /\ gid # -2 /\ root
        IN  /\ faults' = Spend(fault)
            /\ fault = "chown" => (reaches_chown /\ Exists(fs, path))
            /\ IF uid = -2 THEN fail("User not found")
               ELSE IF gid = -2 THEN fail("Group not found")
               ELSE IF ~root THEN fail("Root privileges required to change ownership")
               ELSE IF fault = "chown" \/ ~Exists(fs, path)
               THEN fail("Cannot set ownership")
               ELSE Single("set_ownership", args, root, TRUE,
                           Chown(fs, path, uid, gid), progress)

\* FileOperations.copy_permissions
copy_permissions ==
    \E src \in MetaPaths, dst \in MetaPaths, root \in BOOLEAN,
       fault \in FaultChoices({"chmod", "chown"}) :
        LET args == <<src, dst>>
            src_stat == fs[Real(fs, src)]
            moded == Chmod(fs, dst, src_stat.mode)
            fail(f) == Single("copy_permissions", args, root, FALSE, f,
                              AddError(progress, "Cannot copy permissions"))
        IN  /\ faults' = Spend(fault)
            /\ fault # "none" => (Exists(fs, src) /\ Exists(fs, dst))
            /\ fault = "chown" => root
            /\ IF ~Exists(fs, src) \/ ~Exists(fs, dst) \/ fault = "chmod"
               THEN fail(fs)
               ELSE IF fault = "chown"
               THEN fail(moded)
               ELSE Single("copy_permissions", args, root, TRUE,
                           IF root
                           THEN Chown(moded, dst, src_stat.uid, src_stat.gid)
                           ELSE moded,
                           progress)

\* A new_name argument of rename: its components, and whether it starts
\* with a separator.
NewNames ==
    {[abs |-> FALSE, parts |-> <<"n">>],
     [abs |-> FALSE, parts |-> <<"b">>],
     [abs |-> FALSE, parts |-> <<"l">>],
     [abs |-> FALSE, parts |-> <<"c", "n">>],
     [abs |-> TRUE, parts |-> <<"d", "n">>]}

\* safe_join(dir, new_name) = os.path.join: an absolute second argument
\* replaces the first, a relative one is appended component by component.
join_new_name(dir, new_name) ==
    IF new_name.abs THEN new_name.parts ELSE dir \o new_name.parts

RenamePaths == {<<"s", "a">>, <<"s", "c">>, <<"s", "zz">>}

\* FileOperations.rename
rename ==
    \E old_path \in RenamePaths, new_name \in NewNames,
       fault \in FaultChoices({"rename"}) :
        LET new_path == join_new_name(Parent(old_path), new_name)
            args == <<old_path, new_name>>
            \* os.rename raises: no such entry, no such target directory, a
            \* directory moved below itself or onto an entry that is not one
            raises == \/ fault = "rename"
                      \/ ~LExists(fs, old_path)
                      \/ ~IsDir(fs, Parent(new_path))
                      \/ IsPrefix(old_path, new_path) /\ old_path # new_path
                      \/ fs[old_path].kind = "dir" /\ LExists(fs, new_path)
        IN  /\ faults' = Spend(fault)
            /\ fault = "rename" => (~Exists(fs, new_path) /\ LExists(fs, old_path))
            /\ IF Exists(fs, new_path)
               THEN Single("rename", args, FALSE, FALSE, fs,
                           AddError(progress, "Cannot rename: already exists"))
               ELSE IF raises
               THEN Single("rename", args, FALSE, FALSE, fs,
                           AddError(progress, "Cannot rename"))
               ELSE Single("rename", args, FALSE, TRUE,
                           Rename(fs, old_path, new_path), progress)

\* os.makedirs raises: the path or one of its ancestors is there and is not
\* a directory.
MakeDirsRaises(f, p) ==
    \E k \in 1..Len(p) :
        LET q == SubSeq(p, 1, k) IN LExists(f, q) /\ ~IsDir(f, q)

RECURSIVE MakeDirsMeta(_, _, _, _)
\* os.makedirs(p, mode, exist_ok=True) with a umask of 0: the missing ancestors
\* with mode 0o777, then p with the mode asked for.
MakeDirsMeta(f, p, mode, uid) ==
    IF Len(p) = 0 \/ LExists(f, p) THEN f
    ELSE Put(MakeDirsMeta(f, Parent(p), 511, uid), p, WithMeta(DirNode, mode, uid, uid))

ProcessUid(root) == IF root THEN 0 ELSE 1000

CreatePaths ==
    {<<"s", "n">>, <<"s", "a">>, <<"s", "c">>, <<"s", "l">>, <<"s", "a", "n">>,
     <<"s", "n", "m">>}

\* FileOperations.create_directory
create_directory ==
    \E path \in CreatePaths, permissions \in {493, 448}, root \in BOOLEAN,
       fault \in FaultChoices({"mkdir"}) :
        /\ faults' = Spend(fault)
        /\ fault = "mkdir" => (~LExists(fs, path) /\ ~MakeDirsRaises(fs, path))
        /\ IF fault = "mkdir" \/ MakeDirsRaises(fs, path)
           THEN Single("create_directory", <<path, permissions>>, root, FALSE, fs,
                       AddError(progress, "Cannot create directory"))
           ELSE Single("create_directory", <<path, permissions>>, root, TRUE,
                       MakeDirsMeta(fs, path, permissions, ProcessUid(root)),
                       progress)

\* FileOperations.create_file
create_file ==
    \E path \in CreatePaths, content \in {<<>>, <<5>>}, permissions \in {420, 384},
       root \in BOOLEAN, fault \in FaultChoices({"open", "chmod"}) :
        LET uid == ProcessUid(root)
            dir_path == Parent(path)
            args == <<path, content, permissions>>
            made == IF Exists(fs, dir_path) THEN fs
                    ELSE MakeDirsMeta(fs, dir_path, 511, uid)
            target == Real(made, path)
            opened ==
                IF LExists(made, target)
                THEN [made EXCEPT ![target].data = content]
                ELSE Put(made, target, WithMeta(FileNode(content), 420, uid, uid))
            fail(f) == Single("create_file", args, root, FALSE, f,
                              AddError(progress, "Cannot create file"))
            open_raises == IsDir(made, path) \/ ~IsDir(made, Parent(target))
        IN  /\ faults' = Spend(fault)
            /\ IF ~Exists(fs, dir_path) /\ MakeDirsRaises(fs, dir_path)
               THEN fault = "none" /\ fail(fs)
               ELSE IF fault = "open" \/ open_raises
               THEN fault # "chmod" /\ fail(made)
               ELSE IF fault = "chmod"
               THEN fail(opened)
               ELSE Single("create_file", args, root, TRUE,
                           Chmod(opened, path, permissions), progress)

SingleCall ==
    \/ rename \/ create_directory \/ create_file
    \/ set_permissions \/ set_ownership \/ copy_permissions
NextSingle == Control \/ SingleCall
SpecSingle == InitSingle /\ [][NextSingle]_vars

\* ------------------------------------ calculate_total_size called directly

\* s/k: a symbolic link to the regular file s/b
InitTotalFS(a) ==
    SourceTree(a) @@ (<<"s", "b">> :> FileNode(<<2>>))
                  @@ (<<"s", "k">> :> LinkNode(<<"s", "b">>))

TotalItemLists ==
    {<< <<"s", "a">> >>, << <<"s", "a">>, <<"s", "b">> >>, << <<"s", "k">> >>}

\* What is wrong with one entry for the whole call, if anything: it is
\* unreadable for the process (open or listing is denied, stat works), stat on
\* it raises, or stat works and os.path.getsize raises.
Troubles(f) ==
    {<<"none", <<>> >>}
    \cup {<<"unreadable", p>> : p \in {q \in DOMAIN f : f[q].kind \in {"file", "dir"}}}
    \cup {<<k, p>> : k \in {"nostat", "getsize"},
                     p \in {q \in DOMAIN f : f[q].kind = "file"}}

InitTotal ==
    /\ \E a \in SourceShapes : fs = InitTotalFS(a)
    /\ xdev = FALSE
    /\ cancel_flag = FALSE
    /\ pause_flag = FALSE
    /\ progress = reset
    /\ stk = <<>>
    /\ ret = FALSE
    /\ call = NoCall
    /\ snap = NoSnap
    /\ prev_snap = NoSnap
    /\ last_copy_file = NoCopyFile
    /\ cancel_early = FALSE
    /\ copied = {}
    /\ faults = MaxFaults
    /\ nops = 0

\* The client calls calculate_total_size(items).
call_calculate_total_size ==
    \E items \in TotalItemLists, trouble \in Troubles(fs) :
        Begin([Frame0 EXCEPT !.fn = "calculate_total_size", !.pc = "item",
                             !.items = items, !.i = 1],
              [trouble |-> trouble]
                  @@ NewCall("calculate_total_size", items, <<>>, FALSE, FALSE),
              FALSE)

Troubled(kind, p) == call.trouble = <<kind, p>>

\* os.walk(item) with the sub-directories that fail os.access pruned, filtered
\* by "os.path.exists(filepath) and not os.path.islink(filepath)", less the
\* files whose getsize raises: the files the walk adds to the totals.
WalkCounted(f, d) ==
    {p \in WalkFiles(f, d) :
        /\ ~Troubled("nostat", p) /\ ~Troubled("getsize", p)
        /\ \A k \in Len(Real(f, d))..(Len(p) - 1) :
               ~Troubled("unreadable", SubSeq(p, 1, k))}

\* calculate_total_size: one item of its loop.
total_size_item ==
    /\ At("calculate_total_size", "item")
    /\ Top.i <= Len(Top.items)
    /\ ~is_cancelled
    /\ LET item == Top.items[Top.i]
           real == Real(fs, item)
           counted == WalkCounted(fs, item)
       IN  IF IsFile(fs, item) /\ ~Troubled("nostat", real)
           THEN IF Troubled("getsize", real)
                THEN /\ progress' = AddWarning(progress, "Cannot read size")
                     /\ stk' = SetTop([Top EXCEPT !.i = @ + 1])
                ELSE /\ progress' = progress
                     /\ stk' = SetTop([Top EXCEPT !.i = @ + 1,
                                           !.total_size = @ + GetSize(fs, item),
                                           !.file_count = @ + 1])
           ELSE IF IsDir(fs, item)
           THEN /\ progress' = progress
                /\ stk' = SetTop([Top EXCEPT !.i = @ + 1,
                                      !.total_size = @ + SumSizes(fs, counted),
                                      !.file_count = @ + Cardinality(counted)])
           ELSE /\ progress' = progress
                /\ stk' = SetTop([Top EXCEPT !.i = @ + 1])
    /\ UNCHANGED <<fs, xdev, cancel_flag, pause_flag, ret, call, snap, prev_snap,
                   last_copy_file, cancel_early, copied, faults, nops>>

\* calculate_total_size: return total_size, file_count
total_size_return ==
    /\ At("calculate_total_size", "item")
    /\ Top.i > Len(Top.items) \/ is_cancelled
    /\ Return(<<Top.total_size, Top.file_count>>)
    /\ UNCHANGED <<fs, xdev, cancel_flag, pause_flag, progress, call, snap,
                   prev_snap, last_copy_file, cancel_early, copied, faults, nops>>

NextTotal ==
    Control \/ call_calculate_total_size \/ total_size_item \/ total_size_return
SpecTotal == InitTotal /\ [][NextTotal]_vars

\* ------------------------------------------- permission strings and presets

MaxPermCalls == 2

\* The modes a file starts with: every combination of the nine permission
\* bits, and two modes with setuid, setgid and sticky bits.
PermModes == (0..511) \cup {2541, 4095}

\* The nine characters for the bits of a mode.
PermString(mode) ==
    [k \in 1..9 |-> IF (mode \div PermBits[k]) % 2 = 1 THEN PermLetters[k] ELSE "-"]

\* FileOperations.get_permissions_string: os.stat follows links; ten dashes
\* when it raises.
get_permissions_string(f, path) ==
    IF ~Exists(f, path) THEN [k \in 1..10 |-> "-"]
    ELSE <<IF IsDir(f, path) THEN "d" ELSE IF IsLink(f, path) THEN "l" ELSE "-">>
         \o PermString(f[Real(f, path)].mode)

PermPaths == {<<"s", "a">>, <<"s", "c">>, <<"s", "l">>}
\* The path the presets and the repeated call are applied to.
PresetPaths == {<<"s", "a">>}

InitPerm ==
    /\ \E m \in PermModes :
           fs = [MetaFS EXCEPT ![<<"s", "a">>].mode = m,
                               ![<<"s", "c">>].mode = (m % 512)]
    /\ xdev = FALSE
    /\ cancel_flag = FALSE
    /\ pause_flag = FALSE
    /\ progress = reset
    /\ stk = <<>>
    /\ ret = FALSE
    /\ call = NoCall
    /\ snap = NoSnap
    /\ prev_snap = NoSnap
    /\ last_copy_file = NoCopyFile
    /\ cancel_early = FALSE
    /\ copied = {}
    /\ faults = MaxFaults
    /\ nops = 0

\* The client asks for the permission string of a path.
read_permissions_string ==
    \E path \in PermPaths :
        /\ Idle
        /\ nops < MaxPermCalls
        /\ nops' = nops + 1
        /\ call' = [args |-> <<path>>, root |-> FALSE, prev |-> <<>>,
                    result |-> get_permissions_string(fs, path)]
                    @@ NewCall("get_permissions_string", <<>>, <<>>, FALSE, FALSE)
        /\ UNCHANGED <<fs, xdev, cancel_flag, pause_flag, progress, stk, ret, snap,
                       prev_snap, last_copy_file, cancel_early, copied, faults>>

\* The client feeds the string it was given back into set_permissions.
write_permissions_string ==
    /\ call.op = "get_permissions_string"
    /\ \E fault \in FaultChoices({"chmod"}) :
           SetPermissions(MaxPermCalls, "set_permissions", call.args[1],
                          <<"str", call.result>>, fault)

\* set_permissions(path, "755")
set_permissions_755 ==
    \E path \in PresetPaths, fault \in FaultChoices({"chmod"}) :
        SetPermissions(MaxPermCalls, "set_permissions", path,
                       <<"str", <<"7", "5", "5">> >>, fault)

\* FileOperations.make_executable / make_readonly / make_writable
make_executable ==
    \E path \in PresetPaths, fault \in FaultChoices({"chmod"}) :
        SetPermissions(MaxPermCalls, "make_executable", path,
                       <<"str", <<"7", "5", "5">> >>, fault)
make_readonly ==
    \E path \in PresetPaths, fault \in FaultChoices({"chmod"}) :
        SetPermissions(MaxPermCalls, "make_readonly", path,
                       <<"str", <<"4", "4", "4">> >>, fault)
make_writable ==
    \E path \in PresetPaths, fault \in FaultChoices({"chmod"}) :
        SetPermissions(MaxPermCalls, "make_writable", path,
                       <<"str", <<"6", "4", "4">> >>, fault)

NextPerm ==
    \/ read_permissions_string \/ write_permissions_string \/ set_permissions_755
    \/ make_executable \/ make_readonly \/ make_writable
SpecPerm == InitPerm /\ [][NextPerm]_vars

\* ------------------------------------------- two instances, one trash
\* Two FileOperations instances (one per pane), each with its own worker
\* thread, progress, flags and callback, delete to the trash at the same
\* time.  In this specification stk, progress, ret, snap and prev_snap hold
\* one value per instance, call holds both batches, and no controller acts.
Instances == {1, 2}

\* Instance 1 deletes from s, instance 2 from d; s/a and d/a share a basename.
TwoItemLists ==
    {<< << <<"s", "a">> >>, << <<"d", "a">> >> >>,
     << << <<"s", "a">>, <<"s", "b">> >>, << <<"d", "a">> >> >>,
     << << <<"s", "a">> >>, << <<"d", "b">>, <<"d", "a">> >> >>}

\* a of one pane: a file, or a directory that holds the file x.
PaneTree(pane, shape, tag) ==
    (pane :> DirNode)
    @@ (safe_join(pane, "b") :> FileNode(<<tag + 1>>))
    @@ IF shape = "file" THEN (safe_join(pane, "a") :> FileNode(<<tag>>))
       ELSE (safe_join(pane, "a") :> DirNode)
            @@ (safe_join(safe_join(pane, "a"), "x") :> FileNode(<<tag>>))

InitTwo ==
    /\ \E a \in {"file", "dir"}, b \in {"file", "dir"},
          t \in {"absent", "empty", "has_a"} :
           fs = PaneTree(S, a, 1) @@ PaneTree(D, b, 5) @@ TrashTree(t)
    /\ \E lists \in TwoItemLists :
           call = [NoCall EXCEPT !.op = "delete", !.items = lists,
                                 !.use_trash = TRUE, !.fs0 = fs]
    /\ xdev = FALSE
    /\ cancel_flag = FALSE
    /\ pause_flag = FALSE
    /\ progress = <<reset, reset>>
    /\ stk = <<[Frame0 EXCEPT !.fn = "delete", !.pc = "idle"],
               [Frame0 EXCEPT !.fn = "delete", !.pc = "idle"]>>
    /\ ret = <<FALSE, FALSE>>
    /\ snap = <<NoSnap, NoSnap>>
    /\ prev_snap = <<NoSnap, NoSnap>>
    /\ last_copy_file = NoCopyFile
    /\ cancel_early = FALSE
    /\ copied = {}
    /\ faults = MaxFaults
    /\ nops = 0

AtOf(k, pc) == stk[k].pc = pc
ReportOf(k, pr) ==
    /\ snap' = [snap EXCEPT ![k] = to_dict(pr)]
    /\ prev_snap' = [prev_snap EXCEPT ![k] = snap[k]]

\* shutil.move(src, dst): into dst when dst is a directory, otherwise
\* os.rename onto dst, which replaces an existing file; a directory cannot
\* replace a file, and an entry of that name inside dst is an error.
ShutilMoveTarget(f, src, dst) ==
    IF IsDir(f, dst) THEN safe_join(dst, Base(src)) ELSE dst
ShutilMoveRaises(f, src, dst) ==
    \/ ~LExists(f, src)
    \/ IsDir(f, dst) /\ LExists(f, safe_join(dst, Base(src)))
    \/ ~IsDir(f, dst) /\ LExists(f, dst) /\ f[src].kind = "dir"
ShutilMove(f, src, dst) == Rename(f, src, ShutilMoveTarget(f, src, dst))

\* The worker thread of instance k is started with delete(items, True).
delete_called(k) ==
    /\ AtOf(k, "idle")
    /\ stk' = [stk EXCEPT ![k] = [@ EXCEPT !.pc = "start",
                                           !.items = call.items[k],
                                           !.use_trash = TRUE]]
    /\ UNCHANGED <<fs, xdev, cancel_flag, pause_flag, progress, ret, call, snap,
                   prev_snap, last_copy_file, cancel_early, copied, faults, nops>>

\* delete of instance k: progress.reset(), files_total, the trash directory.
delete_start_of(k) ==
    /\ AtOf(k, "start")
    /\ \E fault \in FaultChoices({"mkdir"}) :
        LET need_dir == ~Exists(fs, TRASH)
        IN  /\ faults' = Spend(fault)
            /\ fault = "mkdir" => need_dir
            /\ fs' = IF need_dir /\ fault = "none" THEN MakeDirs(fs, TRASH) ELSE fs
            /\ stk' = [stk EXCEPT ![k] = [@ EXCEPT !.pc = "loop", !.i = 1,
                                                   !.success = TRUE,
                                                   !.use_trash = fault = "none"]]
    /\ progress' = [progress EXCEPT
                      ![k] = [reset EXCEPT !.files_total = Len(stk[k].items)]]
    /\ UNCHANGED <<xdev, cancel_flag, pause_flag, ret, call, snap, prev_snap,
                   last_copy_file, cancel_early, copied, nops>>

\* delete of instance k: the next item's progress update and report, then
\* the search for a name that os.path.exists does not find in the trash
\* (or, without a trash, the permanent removal).
delete_pick_of(k) ==
    /\ AtOf(k, "loop")
    /\ LET me == stk[k]
           n == Len(me.items)
           item == me.items[me.i]
           shown == [progress[k] EXCEPT !.current_file = Base(item),
                                        !.files_done = me.i,
                                        !.overall_percent = Percent(me.i, n)]
       IN  IF me.i > n
           THEN /\ stk' = [stk EXCEPT ![k] = [@ EXCEPT !.pc = "final"]]
                /\ UNCHANGED <<fs, progress, snap, prev_snap>>
           ELSE /\ ReportOf(k, shown)
                /\ progress' = [progress EXCEPT ![k] = shown]
                /\ IF me.use_trash
                   THEN /\ stk' = [stk EXCEPT ![k] =
                                     [@ EXCEPT !.pc = "move",
                                               !.dst = TrashPath(fs, Base(item), 0)]]
                        /\ fs' = fs
                   ELSE /\ stk' = [stk EXCEPT ![k] = [@ EXCEPT !.i = @ + 1]]
                        /\ fs' = IF LExists(fs, item) THEN RemoveTree(fs, item)
                                 ELSE fs
    /\ UNCHANGED <<xdev, cancel_flag, pause_flag, ret, call, last_copy_file,
                   cancel_early, copied, faults, nops>>

\* delete of instance k: shutil.move(item, trash_path), with the name chosen
\* one step earlier; an exception is recorded as an error.
delete_move_of(k) ==
    /\ AtOf(k, "move")
    /\ \E fault \in FaultChoices({"move"}) :
        LET me == stk[k]
            item == me.items[me.i]
        IN  /\ faults' = Spend(fault)
            /\ IF fault = "move" \/ ShutilMoveRaises(fs, item, me.dst)
               THEN /\ fs' = fs
                    /\ progress' = [progress EXCEPT
                                      ![k] = AddError(@, "Cannot delete")]
                    /\ stk' = [stk EXCEPT ![k] = [@ EXCEPT !.pc = "loop",
                                                           !.i = @ + 1,
                                                           !.success = FALSE]]
               ELSE /\ fs' = ShutilMove(fs, item, me.dst)
                    /\ progress' = progress
                    /\ stk' = [stk EXCEPT ![k] = [@ EXCEPT !.pc = "loop",
                                                           !.i = @ + 1]]
    /\ UNCHANGED <<xdev, cancel_flag, pause_flag, ret, call, snap, prev_snap,
                   last_copy_file, cancel_early, copied, nops>>

\* delete of instance k: the final progress update and the return.
delete_return_of(k) ==
    /\ AtOf(k, "final")
    /\ LET full == [progress[k] EXCEPT !.overall_percent = 100]
       IN  /\ progress' = [progress EXCEPT ![k] = full]
           /\ ReportOf(k, full)
    /\ ret' = [ret EXCEPT ![k] = stk[k].success]
    /\ stk' = [stk EXCEPT ![k] = [@ EXCEPT !.pc = "done"]]
    /\ UNCHANGED <<fs, xdev, cancel_flag, pause_flag, call, last_copy_file,
                   cancel_early, copied, faults, nops>>

NextTwo ==
    \E k \in Instances :
        \/ delete_called(k) \/ delete_start_of(k) \/ delete_pick_of(k)
        \/ delete_move_of(k) \/ delete_return_of(k)
SpecTwo == InitTwo /\ [][NextTwo]_vars

\* ------------------------------------------- the main screen's workers
\* The main screen (ui/main_screen.py) owns one FileOperations instance and
\* starts a worker thread for every paste and every confirmed delete; the
\* progress dialog (ui/progress.py) it opens on top calls pause(), resume()
\* and cancel().  In this specification stk holds the worker threads started
\* so far, one frame each, call holds the screen on top, the dialog's fields
\* and the clipboard, and a worker handles one item of its batch per step.
\* Nothing is marked in the panes; the cursor is on s/a or s/b and the other
\* pane shows d.

\* Worker threads the main screen starts in one behaviour.
MaxWorkers == 2

Cursor == {<<"s", "a">>, <<"s", "b">>}

Ui0 == [top |-> "main", paused |-> FALSE, cancelled |-> FALSE,
        clipboard |-> <<>>, clipboard_mode |-> "none"]

InitScreen ==
    /\ fs = (S :> DirNode) @@ (<<"s", "a">> :> FileNode(<<1>>))
            @@ (<<"s", "b">> :> FileNode(<<2>>)) @@ (D :> DirNode)
    /\ xdev = FALSE
    /\ cancel_flag = FALSE
    /\ pause_flag = FALSE
    /\ progress = reset
    /\ stk = <<>>
    /\ ret = FALSE
    /\ call = Ui0
    /\ snap = NoSnap
    /\ prev_snap = NoSnap
    /\ last_copy_file = NoCopyFile
    /\ cancel_early = FALSE
    /\ copied = {}
    /\ faults = MaxFaults
    /\ nops = 0

\* threading.Thread(target=...).start()
StartThread(fn, items, dst) ==
    /\ nops < MaxWorkers
    /\ nops' = nops + 1
    /\ stk' = Append(stk, [Frame0 EXCEPT !.fn = fn, !.pc = "start",
                                         !.items = items, !.dst = dst,
                                         !.use_trash = TRUE])

\* create_progress_dialog(...), progress_dlg.start(), session.open(progress_dlg)
OpenProgressDialog ==
    call' = [call EXCEPT !.top = "progress", !.paused = FALSE,
                         !.cancelled = FALSE]

\* key_copy with nothing marked: the file under the cursor goes to the
\* clipboard.
key_copy ==
    /\ call.top = "main"
    /\ \E selection \in Cursor :
           call' = [call EXCEPT !.clipboard = <<selection>>,
                                !.clipboard_mode = "copy"]
    /\ UNCHANGED <<fs, xdev, cancel_flag, pause_flag, progress, stk, ret, snap,
                   prev_snap, last_copy_file, cancel_early, copied, faults, nops>>

\* paste_files: the worker thread is started, then the dialog is opened.
paste_files ==
    /\ call.clipboard # <<>>
    /\ StartThread(call.clipboard_mode, call.clipboard, D)
    /\ OpenProgressDialog
    /\ UNCHANGED <<fs, xdev, cancel_flag, pause_flag, progress, ret, snap,
                   prev_snap, last_copy_file, cancel_early, copied, faults>>

\* key_move with nothing marked: paste what the clipboard holds.
key_move ==
    /\ call.top = "main"
    /\ paste_files

\* key_delete: the confirmation box is opened.
key_delete ==
    /\ call.top = "main"
    /\ call' = [call EXCEPT !.top = "confirm"]
    /\ UNCHANGED <<fs, xdev, cancel_flag, pause_flag, progress, stk, ret, snap,
                   prev_snap, last_copy_file, cancel_early, copied, faults, nops>>

\* delete_confirmed: the answer of the confirmation box; on yes the worker
\* thread is started and the dialog opened.
delete_confirmed ==
    /\ call.top = "confirm"
    /\ \E confirmed \in BOOLEAN, selection \in Cursor :
           IF ~confirmed
           THEN /\ call' = [call EXCEPT !.top = "main"]
                /\ UNCHANGED <<stk, nops>>
           ELSE /\ StartThread("delete", <<selection>>, <<>>)
                /\ OpenProgressDialog
    /\ UNCHANGED <<fs, xdev, cancel_flag, pause_flag, progress, ret, snap,
                   prev_snap, last_copy_file, cancel_early, copied, faults>>

\* OperationProgressDialog.toggle_pause
toggle_pause ==
    /\ call.top = "progress"
    /\ call' = [call EXCEPT !.paused = ~@]
    /\ pause_flag' = ~call.paused
    /\ UNCHANGED <<fs, xdev, cancel_flag, progress, stk, ret, snap, prev_snap,
                   last_copy_file, cancel_early, copied, faults, nops>>

\* OperationProgressDialog.cancel_operation
cancel_operation ==
    /\ call.top = "progress"
    /\ cancel_flag' = TRUE
    /\ call' = [call EXCEPT !.cancelled = TRUE]
    /\ UNCHANGED <<fs, xdev, pause_flag, progress, stk, ret, snap, prev_snap,
                   last_copy_file, cancel_early, copied, faults, nops>>

\* OperationProgressDialog.handle_exit: the dialog closes once the operation
\* was paused or cancelled, otherwise the key cancels.
handle_exit ==
    /\ call.top = "progress"
    /\ IF call.paused \/ call.cancelled
       THEN /\ call' = [call EXCEPT !.top = "main"]
            /\ UNCHANGED <<fs, xdev, cancel_flag, pause_flag, progress, stk, ret,
                           snap, prev_snap, last_copy_file, cancel_early, copied,
                           faults, nops>>
       ELSE cancel_operation

\* The worker threads that have not returned from their batch.
RunningWorkers == {k \in 1..Len(stk) : stk[k].pc # "done"}

\* do_operation / do_delete of worker k enters copy or delete: progress is
\* reset, both flags are cleared, the totals are set and the trash directory
\* is made.
worker_start_of(k) ==
    /\ stk[k].pc = "start"
    /\ progress' = [reset EXCEPT !.files_total = Len(stk[k].items)]
    /\ cancel_flag' = FALSE
    /\ pause_flag' = FALSE
    /\ fs' = IF stk[k].fn = "delete" THEN MakeDirs(fs, TRASH) ELSE fs
    /\ stk' = [stk EXCEPT ![k] = [@ EXCEPT !.pc = "loop", !.i = 1]]
    /\ UNCHANGED <<xdev, ret, call, snap, prev_snap, last_copy_file,
                   cancel_early, copied, faults, nops>>

\* The batch of worker k handles its next item: it stops when cancelled; a
\* copy waits while paused, then copies the file; a delete moves the item to
\* the trash.
worker_item_of(k) ==
    /\ stk[k].pc = "loop"
    /\ stk[k].i <= Len(stk[k].items)
    /\ LET me == stk[k]
           item == me.items[me.i]
           shown == [progress EXCEPT !.current_file = Base(item),
                                     !.files_done = @ + 1]
           trash_path == TrashPath(fs, Base(item), 0)
       IN  IF is_cancelled
           THEN /\ stk' = [stk EXCEPT ![k] = [@ EXCEPT !.i = Len(me.items) + 1,
                                                       !.success = FALSE]]
                /\ UNCHANGED <<fs, progress>> /\ NoReport
           ELSE /\ me.fn = "copy" => ~pause_flag
                /\ Report(shown)
                /\ IF me.fn = "copy"
                   THEN /\ fs' = IF IsFile(fs, item)
                                 THEN Put(fs, safe_join(me.dst, Base(item)),
                                          FileNode(Data(fs, item)))
                                 ELSE fs
                        /\ progress' = shown
                        /\ stk' = [stk EXCEPT ![k] = [@ EXCEPT !.i = @ + 1]]
                   ELSE IF ShutilMoveRaises(fs, item, trash_path)
                        THEN /\ fs' = fs
                             /\ progress' = AddError(shown, "Cannot delete")
                             /\ stk' = [stk EXCEPT ![k] = [@ EXCEPT !.i = @ + 1,
                                                                 !.success = FALSE]]
                        ELSE /\ fs' = ShutilMove(fs, item, trash_path)
                             /\ progress' = shown
                             /\ stk' = [stk EXCEPT ![k] = [@ EXCEPT !.i = @ + 1]]
    /\ UNCHANGED <<xdev, cancel_flag, pause_flag, ret, call, last_copy_file,
                   cancel_early, copied, faults, nops>>

\* The batch of worker k returns: the final report unless cancelled, and
\* success and not is_cancelled().
worker_return_of(k) ==
    /\ stk[k].pc = "loop"
    /\ stk[k].i > Len(stk[k].items)
    /\ LET full == [progress EXCEPT !.overall_percent = 100]
       IN  IF is_cancelled
           THEN progress' = progress /\ NoReport
           ELSE progress' = full /\ Report(full)
    /\ ret' = (stk[k].success /\ ~is_cancelled)
    /\ stk' = [stk EXCEPT ![k] = [@ EXCEPT !.pc = "done"]]
    /\ UNCHANGED <<fs, xdev, cancel_flag, pause_flag, call, last_copy_file,
                   cancel_early, copied, faults, nops>>

worker_start == \E k \in 1..Len(stk) : worker_start_of(k)
worker_item == \E k \in 1..Len(stk) : worker_item_of(k)
worker_return == \E k \in 1..Len(stk) : worker_return_of(k)

NextScreen ==
    \/ key_copy \/ key_move \/ key_delete \/ delete_confirmed
    \/ toggle_pause \/ cancel_operation \/ handle_exit
    \/ worker_start \/ worker_item \/ worker_return
SpecScreen == InitScreen /\ [][NextScreen]_vars

\* ------------------------------------------------- the progress lock
\* delete(items, use_trash=False) step by step, every "with
\* self.progress_lock" block entered, executed and left in steps of their
\* own, while a client thread calls get_errors() and clear_errors() and the
\* controller calls cancel(), pause() and resume().  In this specification
\* call also holds the thread that owns progress_lock (lock), the client
\* thread's position (client), the list get_errors returned last (got) and
\* report_progress' local progress_data, and whether a progress callback has
\* raised an exception (raised).  The frame's pos is the worker's place in
\* the block: 0 before it, 1 inside, 2 with its body done.

LockItemLists ==
    {<< <<"s", "a">> >>, << <<"s", "a">>, <<"s", "b">> >>,
     << <<"s", "zz">>, <<"s", "b">> >>}

InitLock ==
    /\ \E a \in {"file", "dir"} :
           fs = SourceTree(a) @@ (<<"s", "b">> :> FileNode(<<2>>))
    /\ xdev = FALSE
    /\ cancel_flag = FALSE
    /\ pause_flag = FALSE
    /\ progress = reset
    /\ stk = <<>>
    /\ ret = FALSE
    /\ call = [op |-> "none", items |-> <<>>, dst |-> <<>>, verify |-> FALSE,
               use_trash |-> FALSE, fs0 |-> <<>>, cancel0 |-> FALSE,
               errors0 |-> 0, lock |-> "none", client |-> "idle",
               got |-> <<>>, progress_data |-> NoSnap, raised |-> FALSE]
    /\ snap = NoSnap
    /\ prev_snap = NoSnap
    /\ last_copy_file = NoCopyFile
    /\ cancel_early = FALSE
    /\ copied = {}
    /\ faults = MaxFaults
    /\ nops = 0

\* The blocks of delete and report_progress that run under the lock.
LockedBlocks == {"reset", "total", "show", "snapshot", "error", "full",
                 "last_snapshot"}

\* Where the worker goes on when it leaves a block.
AfterBlock(block) ==
    CASE block = "reset" -> "flags"
      [] block = "total" -> "test"
      [] block = "show" -> "snapshot"
      [] block = "snapshot" -> "callback"
      [] block = "error" -> "test"
      [] block = "full" -> "last_snapshot"
      [] block = "last_snapshot" -> "last_callback"

\* A variant of the lock's acquisition that leaves the lock free.
Acquired_not(thread) == call

\* "with self.progress_lock:" entered by a thread (the lock was free).
Acquired(thread) == [call EXCEPT !.lock = thread]

\* The client calls delete(items, use_trash=False) on the worker thread.
call_delete_permanently ==
    /\ Idle
    /\ nops < MaxOps
    /\ nops' = nops + 1
    /\ \E items \in LockItemLists :
        /\ stk' = <<[Frame0 EXCEPT !.fn = "delete", !.pc = "reset",
                                   !.items = items]>>
        /\ call' = [call EXCEPT !.op = "delete", !.items = items, !.fs0 = fs,
                                !.cancel0 = cancel_flag,
                                !.errors0 = Len(progress.errors)]
    /\ UNCHANGED <<fs, xdev, cancel_flag, pause_flag, progress, ret, snap,
                   prev_snap, last_copy_file, cancel_early, copied, faults>>

\* The worker enters a "with self.progress_lock" block.
progress_lock_enter ==
    /\ ~Idle /\ Top.fn = "delete" /\ Top.pc \in LockedBlocks /\ Top.pos = 0
    /\ call.lock = "none"
    /\ call' = Acquired("worker")
    /\ stk' = SetTop([Top EXCEPT !.pos = 1])
    /\ UNCHANGED <<fs, xdev, cancel_flag, pause_flag, progress, ret, snap,
                   prev_snap, last_copy_file, cancel_early, copied, faults, nops>>

\* The body of the block the worker is in: progress.reset(), files_total,
\* the item's counters, the error appended, the final percentage, or
\* report_progress' progress.to_dict().
progress_lock_body ==
    /\ ~Idle /\ Top.fn = "delete" /\ Top.pc \in LockedBlocks /\ Top.pos = 1
    /\ LET n == Len(Top.items)
           item == Top.items[Top.i]
       IN  /\ progress' =
                 CASE Top.pc = "reset" -> reset
                   [] Top.pc = "total" -> [progress EXCEPT !.files_total = n]
                   [] Top.pc = "show" ->
                        [progress EXCEPT !.current_file = Base(item),
                                         !.files_done = Top.i,
                                         !.overall_percent = Percent(Top.i, n)]
                   [] Top.pc = "error" -> AddError(progress, "Cannot delete")
                   [] Top.pc = "full" -> [progress EXCEPT !.overall_percent = 100]
                   [] OTHER -> progress
           /\ call' = IF Top.pc \in {"snapshot", "last_snapshot"}
                      THEN [call EXCEPT !.progress_data = to_dict(progress)]
                      ELSE call
           /\ stk' = SetTop([Top EXCEPT
                                !.pos = 2,
                                !.i = IF Top.pc = "error" THEN @ + 1 ELSE @,
                                !.success = IF Top.pc = "error" THEN FALSE ELSE @])
    /\ UNCHANGED <<fs, xdev, cancel_flag, pause_flag, ret, snap, prev_snap,
                   last_copy_file, cancel_early, copied, faults, nops>>

\* The worker leaves the block: the lock is released.
progress_lock_leave ==
    /\ ~Idle /\ Top.fn = "delete" /\ Top.pc \in LockedBlocks /\ Top.pos = 2
    /\ call' = [call EXCEPT !.lock = "none"]
    /\ stk' = SetTop([Top EXCEPT !.pc = AfterBlock(Top.pc), !.pos = 0])
    /\ UNCHANGED <<fs, xdev, cancel_flag, pause_flag, progress, ret, snap,
                   prev_snap, last_copy_file, cancel_early, copied, faults, nops>>

\* delete: self.cancel_flag.clear(); self.pause_flag.clear()
delete_clear_flags ==
    /\ At("delete", "flags")
    /\ cancel_flag' = FALSE
    /\ pause_flag' = FALSE
    /\ stk' = SetTop([Top EXCEPT !.pc = "total"])
    /\ UNCHANGED <<fs, xdev, progress, ret, call, snap, prev_snap,
                   last_copy_file, cancel_early, copied, faults, nops>>

\* delete: the loop's head and its cancellation test; after the loop, the
\* test that guards the final update.
delete_next_item ==
    /\ At("delete", "test")
    /\ stk' = SetTop(IF Top.i > Len(Top.items)
                     THEN [Top EXCEPT !.pc = IF is_cancelled THEN "ret" ELSE "full"]
                     ELSE IF is_cancelled
                     THEN [Top EXCEPT !.pc = "ret", !.success = FALSE]
                     ELSE [Top EXCEPT !.pc = "show"])
    /\ UNCHANGED <<fs, xdev, cancel_flag, pause_flag, progress, ret, call, snap,
                   prev_snap, last_copy_file, cancel_early, copied, faults, nops>>

\* report_progress: self.progress_callback(progress_data)
progress_callback ==
    /\ At("delete", "callback") \/ At("delete", "last_callback")
    /\ snap' = call.progress_data
    /\ prev_snap' = snap
    /\ stk' = SetTop([Top EXCEPT !.pc = IF Top.pc = "callback" THEN "remove"
                                        ELSE "ret"])
    /\ UNCHANGED <<fs, xdev, cancel_flag, pause_flag, progress, ret, call,
                   last_copy_file, cancel_early, copied, faults, nops>>

\* delete: os.remove for a file or a link, shutil.rmtree for a directory; an
\* exception leads to the block that records the error.
delete_remove ==
    /\ At("delete", "remove")
    /\ \E fault \in FaultChoices({"unlink"}) :
        LET item == Top.items[Top.i]
            as_file == IsFile(fs, item) \/ IsLink(fs, item)
        IN  /\ faults' = Spend(fault)
            /\ fault = "unlink" => as_file
            /\ IF fault = "unlink"
               THEN /\ fs' = fs
                    /\ stk' = SetTop([Top EXCEPT !.pc = "error"])
               ELSE /\ fs' = IF as_file \/ IsDir(fs, item)
                             THEN RemoveTree(fs, item) ELSE fs
                    /\ stk' = SetTop([Top EXCEPT !.pc = "test", !.i = @ + 1])
    /\ UNCHANGED <<xdev, cancel_flag, pause_flag, progress, ret, call, snap,
                   prev_snap, last_copy_file, cancel_early, copied, nops>>

\* delete: return success and not self.is_cancelled()
delete_result ==
    /\ At("delete", "ret")
    /\ Return(Top.success /\ ~is_cancelled)
    /\ UNCHANGED <<fs, xdev, cancel_flag, pause_flag, progress, call, snap,
                   prev_snap, last_copy_file, cancel_early, copied, faults, nops>>

\* The client thread enters get_errors() or clear_errors(): the lock is taken.
client_enter ==
    /\ call.client = "idle"
    /\ call.lock = "none"
    /\ \E fn \in {"get_errors", "clear_errors"} :
           call' = [Acquired("client") EXCEPT !.client = fn]
    /\ UNCHANGED <<fs, xdev, cancel_flag, pause_flag, progress, stk, ret, snap,
                   prev_snap, last_copy_file, cancel_early, copied, faults, nops>>

\* get_errors: return self.progress.errors.copy(), and the lock is released.
get_errors ==
    /\ call.client = "get_errors"
    /\ call' = [call EXCEPT !.got = progress.errors, !.client = "idle",
                            !.lock = "none"]
    /\ UNCHANGED <<fs, xdev, cancel_flag, pause_flag, progress, stk, ret, snap,
                   prev_snap, last_copy_file, cancel_early, copied, faults, nops>>

\* clear_errors: both lists are emptied, and the lock is released.
clear_errors ==
    /\ call.client = "clear_errors"
    /\ progress' = [progress EXCEPT !.errors = <<>>, !.warnings = <<>>]
    /\ call' = [call EXCEPT !.client = "idle", !.lock = "none"]
    /\ UNCHANGED <<fs, xdev, cancel_flag, pause_flag, stk, ret, snap, prev_snap,
                   last_copy_file, cancel_early, copied, faults, nops>>

NextLock ==
    \/ Control
    \/ call_delete_permanently
    \/ progress_lock_enter \/ progress_lock_body \/ progress_lock_leave
    \/ delete_clear_flags \/ delete_next_item \/ progress_callback
    \/ delete_remove \/ delete_result
    \/ client_enter \/ get_errors \/ clear_errors
SpecLock == InitLock /\ [][NextLock]_vars

\* ------------------------------------------- a progress callback that raises
\* The same delete, step by step, with a progress callback that may raise an
\* exception at any of its invocations.

\* A variant of report_progress in which the callback's exception ends the
\* batch.
AfterCallback_propagating(pc, raised) ==
    IF raised THEN "ret" ELSE IF pc = "callback" THEN "remove" ELSE "ret"

\* report_progress: the callback runs inside try ... except Exception, the
\* exception is logged and report_progress returns to its caller: delete
\* goes on with the item's removal, or after the final report with its return.
AfterCallback(pc, raised) == IF pc = "callback" THEN "remove" ELSE "ret"

\* report_progress: self.progress_callback(progress_data), which returns or
\* raises.
progress_callback_outcome ==
    /\ At("delete", "callback") \/ At("delete", "last_callback")
    /\ snap' = call.progress_data
    /\ prev_snap' = snap
    /\ \E raised \in BOOLEAN :
        /\ call' = [call EXCEPT !.raised = @ \/ raised]
        /\ stk' = SetTop([Top EXCEPT !.pc = AfterCallback(Top.pc, raised)])
    /\ UNCHANGED <<fs, xdev, cancel_flag, pause_flag, progress, ret,
                   last_copy_file, cancel_early, copied, faults, nops>>

NextCallback ==
    \/ Control
    \/ call_delete_permanently
    \/ progress_lock_enter \/ progress_lock_body \/ progress_lock_leave
    \/ delete_clear_flags \/ delete_next_item \/ progress_callback_outcome
    \/ delete_remove \/ delete_result
SpecCallback == InitLock /\ [][NextCallback]_vars

\* --------------------------------------- control calls between the batches

\* cancel(), pause() and resume() are called only while no batch is running.
IdleControl == Idle /\ Control
NextIdleControl == IdleControl \/ Client \/ Worker
SpecIdleControl == Init /\ [][NextIdleControl]_vars

\* ------------------------------------------------------------ properties

\* The top-level call op has returned; ret holds its result.
Returned(op) == Idle /\ call.op = op

\* Every entry at or below p in f0 is found, unchanged, at or below q in f.
SameTree(f0, p, f, q) ==
    \A x \in {y \in DOMAIN f0 : IsPrefix(p, y)} :
        LET z == q \o SubSeq(x, Len(p) + 1, Len(x))
        IN  z \in DOMAIN f /\ f[z] = f0[x]

\* Compared with the filesystem at the call, nothing was copied, renamed or
\* deleted: every entry is as it was and only directories were created.
NothingTransferred ==
    /\ \A x \in DOMAIN call.fs0 : x \in DOMAIN fs /\ fs[x] = call.fs0[x]
    /\ \A x \in (DOMAIN fs) \ (DOMAIN call.fs0) : fs[x].kind = "dir"

NoFaultYet == faults = MaxFaults

C2_CancelMonotonic ==
    [][(/\ ~Idle /\ ~Idle' /\ stk[1].pc # "start"
        /\ ~call.cancel0 /\ is_cancelled) => is_cancelled']_vars

\* C3: a copy_file call during whose pause wait cancel() was called returns
\* false.
C3_CancelBeatsPause ==
    (last_copy_file.cancel_in_wait /\ last_copy_file.phase = "returned")
        => last_copy_file.result = FALSE

\* C4: once cancel() has been called while the worker is blocked in the pause
\* wait, no further chunk is read or written: current_bytes and the
\* destination file do not grow.
C4_CancelAbortsAtOnce ==
    [][(At("copy_file", "sleep") /\ cancel_flag)
          => (progress'.current_bytes = progress.current_bytes /\ fs' = fs)]_vars

\* The worker is in wait_if_paused.
InWait == ~Idle /\ Top.fn = "copy_file" /\ Top.pc \in {"wait", "sleep"}

\* The direct copy_file call has returned true with every source byte at the
\* destination.
CopyCompleted ==
    /\ Returned("copy_file") /\ ret = TRUE
    /\ IsFile(fs, call.dst)
    /\ Data(fs, call.dst) = Data(call.fs0, call.items[1])

\* C5: while the worker is in the pause wait, the pause flag stays set and
\* cancel is not set, no byte is transferred; and when the pause is eventually
\* lifted for good, with no cancel and no I/O fault, a copy blocked in the
\* pause wait eventually completes with every byte and returns true.
C5_PauseThenResume ==
    /\ [][(InWait /\ pause_flag /\ ~cancel_flag /\ pause_flag')
             => (progress'.current_bytes = progress.current_bytes /\ fs' = fs)]_vars
    /\ (<>[](~pause_flag) /\ [](~cancel_flag) /\ []NoFaultYet)
           => (At("copy_file", "sleep") ~> CopyCompleted)

C5_Witness ==
    /\ CopyCompleted /\ last_copy_file.waited
    /\ ~pause_flag /\ ~cancel_flag /\ NoFaultYet
    /\ Len(Data(fs, call.dst)) = MaxChunks
    /\ Len(progress.warnings) = 0

\* C6: whenever move returns true, every item is gone from its source path
\* and is at dest_dir/basename with what the source held before the call.
C6_MoveMoves ==
    (Returned("move") /\ ret = TRUE /\ NoFaultYet)
        => \A k \in 1..Len(call.items) :
               LET item == call.items[k]
                   dest_path == safe_join(call.dst, Base(item))
               IN  /\ ~LExists(fs, item)
                   /\ LExists(fs, dest_path)
                   /\ SameTree(call.fs0, item, fs, dest_path)

\* C7: when the rename phase of move gives up, no item of the batch has been
\* renamed by it.
C7_RenameAllOrNothing ==
    (At("move", "fallback") /\ NoFaultYet) => fs = call.fs0

\* C8: copy returns true if and only if the copy of every item returned true
\* (the item then being in dest_dir) and the run was not cancelled.
C8_CopyTrueIffAllCopied ==
    Returned("copy")
        => ((ret = TRUE)
              <=> (/\ copied = 1..Len(call.items)
                   /\ \A k \in 1..Len(call.items) :
                          LExists(fs, safe_join(call.dst, Base(call.items[k])))
                   /\ ~cancel_flag))

\* A copy_file call has just returned: to the client, or to the loop of copy
\* or copy_directory that called it.
CopyFileJustReturned ==
    /\ last_copy_file.phase = "returned"
    /\ \/ Returned("copy_file")
       \/ ~Idle /\ Top.pc = "after_file"

HashesEqual(src, dst) ==
    IsFile(fs, src) /\ IsFile(fs, dst) /\ calculate_md5(fs, src) = calculate_md5(fs, dst)

\* C9 (as claimed): when a copy_file call with verify=true returns, the
\* destination's hash equals the source's or the destination does not exist.
C9_VerifiedOrAbsent ==
    (CopyFileJustReturned /\ last_copy_file.verify /\ NoFaultYet)
        => (\/ HashesEqual(last_copy_file.src, last_copy_file.dst)
            \/ ~LExists(fs, last_copy_file.dst))

\* C9 (amended): when a copy_file call with verify=true that reached its
\* verification returns: true only with equal hashes; after a failed
\* verification false, with the error recorded and the destination gone
\* unless its removal failed.
C9_VerifyOutcome ==
    (CopyFileJustReturned /\ last_copy_file.verify)
        => /\ last_copy_file.result = TRUE
               => (/\ last_copy_file.verified = "pass"
                   /\ HashesEqual(last_copy_file.src, last_copy_file.dst))
           /\ last_copy_file.verified \in {"fail", "kept"}
               => (/\ last_copy_file.result = FALSE
                   /\ progress.errors # <<>>
                   /\ progress.errors[Len(progress.errors)] = "Verification failed")
           /\ last_copy_file.verified = "fail" => ~LExists(fs, last_copy_file.dst)

C9_Witness ==
    /\ CopyFileJustReturned /\ last_copy_file.verify
    /\ last_copy_file.verified = "fail"
    /\ ~LExists(fs, last_copy_file.dst)
    /\ ret = FALSE

\* C10: within one top-level operation no snapshot reports a smaller
\* completed count or a smaller overall percentage than the one before it.
C10_SnapshotsMonotonic ==
    (prev_snap # NoSnap /\ NoFaultYet)
        => (/\ snap.completed >= prev_snap.completed
            /\ snap.overall_percent >= prev_snap.overall_percent)

\* C11: whenever a copy, move or delete batch returns true, the callback has
\* received a snapshot during the batch and the last one it received has
\* overall_percent = 100.
C11_LastSnapshotIs100 ==
    ((Returned("copy") \/ Returned("move") \/ Returned("delete")) /\ ret = TRUE)
        => (snap # NoSnap /\ snap.overall_percent = 100)

\* A top-level copy batch has stored its totals (it is past the size loop).
TotalsSeeded ==
    call.op = "copy" /\ ~Idle /\ stk[1].pc \notin {"start", "calc"}

\* C12: in every state of a copy batch after the totals have been seeded,
\* current_bytes <= current_total, overall_bytes <= overall_total and
\* files_done <= files_total.
C12_CountersWithinTotals ==
    (TotalsSeeded /\ NoFaultYet)
        => /\ progress.current_bytes <= progress.current_total
           /\ progress.overall_bytes <= progress.overall_total
           /\ progress.files_done <= progress.files_total

\* C13: in every snapshot delivered during a copy batch, a percentage whose
\* total is positive equals floor(100 * bytes / total), and both percentages
\* lie in 0..100.
C13_PercentagesDerived ==
    [][(call.op = "copy" /\ snap' # snap /\ NoFaultYet')
          => /\ progress'.current_total > 0
                  => progress'.current_percent
                         = Percent(progress'.current_bytes, progress'.current_total)
             /\ progress'.overall_total > 0
                  => progress'.overall_percent
                         = Percent(progress'.overall_bytes, progress'.overall_total)
             /\ progress'.current_percent \in 0..100
             /\ progress'.overall_percent \in 0..100]_vars

\* C14: when a delete batch returns, every item it failed to delete has an
\* error recorded: it returns true only with an empty error list and every
\* item gone from its path, and false only with an error recorded or the
\* cancel flag set.
C14_DeleteFailuresRecorded ==
    Returned("delete")
        => /\ ret = TRUE
                => /\ progress.errors = <<>>
                   /\ \A k \in 1..Len(call.items) : ~LExists(fs, call.items[k])
           /\ ret = FALSE => (progress.errors # <<>> \/ cancel_flag)

\* The entries the trash held when the batch was called.
TrashBefore == {p \in DOMAIN call.fs0 : IsPrefix(TRASH, p)}

\* C15: during and after a delete to the trash every entry the trash held
\* before the batch is still there, unchanged; and when the batch returns
\* with no error and no cancel, every item is gone from its path and the
\* result is true.
C15_TrashKeepsEntries ==
    (call.op = "delete" /\ call.use_trash)
        => /\ \A p \in TrashBefore : p \in DOMAIN fs /\ fs[p] = call.fs0[p]
           /\ (Idle /\ progress.errors = <<>> /\ ~cancel_flag /\ NoFaultYet)
                  => /\ ret = TRUE
                     /\ \A k \in 1..Len(call.items) : ~LExists(fs, call.items[k])

\* The error list holds an entry appended by the call that has just returned
\* (copy, move through its fallback, and delete empty the list on the way).
ErrorAppended ==
    Len(progress.errors) > (IF call.op \in {"copy", "move", "delete"}
                            THEN 0 ELSE call.errors0)

\* C16 (the engine's batch operations): when copy, copy_file, move or delete
\* has returned false with the cancel flag not set, the error list holds an
\* entry appended by that call.
C16_EngineFailureHasError ==
    (Idle /\ call.op \in {"copy", "copy_file", "move", "delete"}
          /\ ret = FALSE /\ ~cancel_flag)
        => ErrorAppended

\* C16: when a public mutating operation has returned false with the cancel
\* flag not set, the error list holds an entry appended by that call.
C16_FailureHasError ==
    (Idle /\ call.op # "none" /\ ret = FALSE /\ ~cancel_flag) => ErrorAppended

\* The worker stands at one of the places where the code asks is_cancelled()
\* and the answer is yes: its next step is the cancellation branch.
CancelBranch ==
    /\ ~Idle
    /\ is_cancelled
    /\ \/ At("copy_file", "check")
       \/ At("copy", "loop") /\ Top.i <= Len(Top.items)
       \/ (At("copy", "after_file") \/ At("copy", "after_dir")) /\ ~ret
       \/ At("copy", "final") \/ At("copy", "ret")
       \/ At("copy_directory", "loop") /\ Top.i <= Len(Top.items)
       \/ At("delete", "loop") /\ Top.i <= Len(Top.items)
       \/ At("delete", "final") \/ At("delete", "ret")

BatchRunning == call.op \in {"copy", "delete"} /\ ~Idle /\ stk[1].pc # "start"

IsPrefixOf(a, b) == Len(a) <= Len(b) /\ SubSeq(b, 1, Len(a)) = a

\* C17: in a top-level copy or delete, (a) a batch that returns while the
\* cancel flag is set returns false, (b) a step that takes a cancellation
\* branch leaves the error list as it is, and (c) once the batch has started
\* no step removes or changes an error already recorded, up to and after the
\* return, so get_errors() still returns the errors of the items handled
\* before the cancellation.
C17_CancelIsNotAnError ==
    [][/\ (BatchRunning /\ Idle' /\ cancel_flag) => ret' = FALSE
       /\ (BatchRunning /\ CancelBranch /\ stk' # stk)
              => progress'.errors = progress.errors
       /\ (BatchRunning \/ Returned("copy") \/ Returned("delete"))
              => IsPrefixOf(progress.errors, progress'.errors)]_vars

\* A copy of two items has recorded an error for the first, left its loop at
\* the second because of the cancel flag, and is about to return.
C17_Witness ==
    /\ call.op = "copy" /\ At("copy", "ret") /\ Len(stk) = 1
    /\ is_cancelled /\ ~Top.success
    /\ Top.i = 2 /\ Len(Top.items) = 2
    /\ Len(progress.errors) = 1

\* The first step of a top-level copy or delete, the one that resets progress.
AtResetStep == Len(stk) = 1 /\ Top.fn \in {"copy", "delete"} /\ Top.pc = "start"

\* C18: between the reset at the start of a top-level copy, move or delete and
\* its return the error and warning lists are never reset: every step of the
\* operation other than its first keeps the messages already recorded.
C18_NoResetBeforeReturn ==
    [][(call.op \in {"copy", "move", "delete"} /\ ~Idle /\ ~AtResetStep)
          => /\ IsPrefixOf(progress.errors, progress'.errors)
             /\ IsPrefixOf(progress.warnings, progress'.warnings)]_vars

\* The conditions under which _try_rename_move renames every item of the call:
\* one filesystem, the destination a directory, every item there and no
\* entry of its name in the destination.
RenameSuffices ==
    /\ ~xdev
    /\ IsDir(call.fs0, call.dst)
    /\ \A i \in 1..Len(call.items) :
           /\ LExists(call.fs0, call.items[i])
           /\ ~LExists(call.fs0, safe_join(call.dst, Base(call.items[i])))

\* What move does in that case when no control call was ever made: every item
\* is renamed into the destination, the callback is never invoked and the
\* result is true.
MovedByRename ==
    /\ ret = TRUE
    /\ snap = NoSnap
    /\ \A i \in 1..Len(call.items) :
           LET item == call.items[i] IN
           /\ ~LExists(fs, item)
           /\ SameTree(call.fs0, item, fs, safe_join(call.dst, Base(item)))

\* C19: when cancel(), pause() and resume() are called only while no batch is
\* running, a fault-free move that can rename all its items does what it does
\* without those calls, whatever the flags were when it was called.
C19_IdleControlIsNoOp ==
    (Returned("move") /\ RenameSuffices /\ NoFaultYet) => MovedByRename

\* C20: after rename(old_path, new_name), with new_path the entry named
\* new_name in old_path's directory: if new_path was there at the call the
\* result is false, an error was recorded and nothing has changed; a result
\* of true means that new_path lies in old_path's own directory, old_path is
\* gone and what was at old_path is at new_path; a result of false means
\* that nothing has changed.
C20_RenameWithinParent ==
    (Idle /\ call.op = "rename") =>
        LET old_path == call.args[1]
            new_path == join_new_name(Parent(old_path), call.args[2])
        IN  /\ LExists(call.fs0, new_path)
                   => (ret = FALSE /\ ErrorAppended /\ fs = call.fs0)
            /\ ret = TRUE => /\ Parent(new_path) = Parent(old_path)
                             /\ ~LExists(fs, old_path)
                             /\ SameTree(call.fs0, old_path, fs, new_path)
            /\ ret = FALSE => fs = call.fs0

\* The two string notations the interface names: three octal digits, or nine
\* characters each of which is the letter of its position or a dash.
IsOctal3(chars) ==
    Len(chars) = 3 /\ \A k \in 1..3 : IsDigit(chars[k]) /\ DigitValue(chars[k]) <= 7
IsSymbolic9(chars) ==
    Len(chars) = 9 /\ \A k \in 1..9 : chars[k] \in {PermLetters[k], "-"}

\* C21: set_permissions with a string that is neither three octal digits nor
\* a nine-character rwxr-xr-x string returns false and leaves every mode as
\* it was.
C21_OtherStringsRejected ==
    (Idle /\ call.op = "set_permissions" /\ call.args[2][1] = "str"
          /\ ~IsOctal3(call.args[2][2]) /\ ~IsSymbolic9(call.args[2][2]))
        => (ret = FALSE /\ fs = call.fs0)

\* The path of the last single call and its entry, links followed.
CallPath == call.args[1]
ModeAt(f, path) == f[Real(f, path)].mode

\* C22: when the string get_permissions_string(path) returns for an existing
\* path is fed back into set_permissions(path, s) and chmod does not fail,
\* the call returns true and the nine permission bits are those the entry
\* had before.
C22_PermissionStringRoundTrip ==
    (/\ Idle /\ call.op = "set_permissions"
     /\ call.prev # <<>> /\ call.prev[1] = "get_permissions_string"
     /\ Exists(call.fs0, CallPath)
     /\ call.args[2] = <<"str", get_permissions_string(call.fs0, CallPath)>>
     /\ NoFaultYet)
        => /\ ret = TRUE
           /\ ModeAt(fs, CallPath) % 512 = ModeAt(call.fs0, CallPath) % 512

\* The string of a mode with set-id and sticky bits and an uneven mix of the
\* nine bits went through the round trip.
C22_Witness ==
    /\ Idle /\ call.op = "set_permissions"
    /\ call.prev # <<>> /\ call.prev[1] = "get_permissions_string"
    /\ call.args[2] = <<"str", get_permissions_string(call.fs0, CallPath)>>
    /\ CallPath = <<"s", "a">>
    /\ ModeAt(call.fs0, CallPath) = 2541
    /\ ret = TRUE /\ ModeAt(fs, CallPath) = 493

\* The last call was set_permissions(path, "755").
SetTo755 ==
    call.op = "set_permissions" /\ call.args[2] = <<"str", <<"7", "5", "5">> >>
\* ... and so was the call before it, on the same path, and it returned true.
SetTo755Again == SetTo755 /\ call.prev = <<"set_permissions", call.args, TRUE>>

\* C23: a set_permissions(path, "755") that follows a successful
\* set_permissions(path, "755") leaves the filesystem as the first call left
\* it, and make_executable, make_readonly and make_writable, when they return
\* true, have set the modes 0o755, 0o444 and 0o644.
C23_IdempotentAndPresets ==
    /\ SetTo755Again => (fs = call.fs0 /\ (ret = TRUE => ModeAt(fs, CallPath) = 493))
    /\ (call.op = "make_executable" /\ ret = TRUE) => ModeAt(fs, CallPath) = 493
    /\ (call.op = "make_readonly" /\ ret = TRUE) => ModeAt(fs, CallPath) = 292
    /\ (call.op = "make_writable" /\ ret = TRUE) => ModeAt(fs, CallPath) = 420

\* set_permissions(path, "755") was called twice in a row and both calls
\* returned true.
C23_Witness == SetTo755Again /\ ret = TRUE /\ ModeAt(fs, CallPath) = 493

\* The argument is a name that pwd.getpwnam / grp.getgrnam does not know.
UnknownName(arg) == arg[1] = "name" /\ arg[2] # "root"
LastError == progress.errors[Len(progress.errors)]

\* C24: after set_ownership(path, user, group): without effective uid 0 the
\* result is false and no owner or group has changed; a result of false comes
\* with exactly one new error and a result of true with none; an unknown
\* user or group name gives false with the error "User not found" or "Group
\* not found", and a call without privilege whose names are all known gives
\* the error "Root privileges required to change ownership".
C24_OwnershipNeedsRoot ==
    (Idle /\ call.op = "set_ownership") =>
        LET user == call.args[2]
            group == call.args[3]
        IN  /\ ~call.root => (ret = FALSE /\ fs = call.fs0)
            /\ Len(progress.errors) = call.errors0 + (IF ret THEN 0 ELSE 1)
            /\ UnknownName(user) => (ret = FALSE /\ LastError = "User not found")
            /\ (~UnknownName(user) /\ UnknownName(group))
                   => (ret = FALSE /\ LastError = "Group not found")
            /\ (~call.root /\ ~UnknownName(user) /\ ~UnknownName(group))
                   => LastError = "Root privileges required to change ownership"

\* set_ownership(s/a, 0, "root") was called without privilege.
C24_Witness ==
    /\ Idle /\ call.op = "set_ownership" /\ ~call.root
    /\ call.args = << <<"s", "a">>, <<"int", 0>>, <<"name", "root">> >>
    /\ ret = FALSE /\ fs[<<"s", "a">>].uid = 1000
    /\ progress.errors = <<"Root privileges required to change ownership">>

\* The regular files of the call's items, symbolic links not followed: an
\* item that is a regular file, and the regular files below an item that is
\* a directory.
RegularFiles ==
    {p \in DOMAIN call.fs0 :
        /\ call.fs0[p].kind = "file"
        /\ \E i \in 1..Len(call.items) :
               LET item == call.items[i] IN
               \/ p = item
               \/ /\ LExists(call.fs0, item) /\ call.fs0[item].kind = "dir"
                  /\ IsPrefix(item, p)}

\* Those of them that cannot be read or stat'ed in this call.
Unreadable ==
    {p \in RegularFiles :
        \E k \in 1..Len(p) : call.trouble[1] # "none" /\ call.trouble[2] = SubSeq(p, 1, k)}

\* C25: when calculate_total_size returns without having been cancelled, the
\* totals are the bytes and the number of the regular files of its items
\* (links not followed) that can be read and stat'ed, and a warning has been
\* recorded when one of them was left out.
C25_TotalsAndWarnings ==
    (Returned("calculate_total_size") /\ ~cancel_flag) =>
        /\ ret = <<SumSizes(call.fs0, RegularFiles \ Unreadable),
                   Cardinality(RegularFiles \ Unreadable)>>
        /\ Unreadable # {} => progress.warnings # <<>>

\* Every regular file and every directory below src in f is found at the same
\* relative path below dst, a file with the same content.
Mirrored(f, src, dst) ==
    \A p \in {x \in DOMAIN f : IsPrefix(src, x) /\ x # src} :
        LET q == dst \o SubSeq(p, Len(src) + 1, Len(p))
        IN  /\ f[p].kind = "file" => (IsFile(f, q) /\ Data(f, q) = f[p].data)
            /\ f[p].kind = "dir" => IsDir(f, q)

\* C26: when a copy_directory(src, dst) call returns true, every regular file
\* below src is at the same relative path below dst with the same content,
\* and every directory below src is a directory below dst.
C26_DirectoryMirrored ==
    [][(At("copy_directory", "loop") /\ stk' = Pop /\ ret' = TRUE)
          => Mirrored(fs', Top.src, Top.dst)]_vars

\* The entries directly in the trash.
TrashEntries(f) == {p \in DOMAIN f : Len(p) = 2 /\ Parent(p) = TRASH}
BothDone == \A k \in Instances : AtOf(k, "done")
ItemsOf(k) == {call.items[k][i] : i \in 1..Len(call.items[k])}

\* C27: two instances that delete to the trash at the same time do not
\* interfere: with no failure, both batches return true, every item of
\* either batch has left its place and is an entry of its own in the trash,
\* unchanged, and the trash has grown by exactly the items of both batches.
C27_InstancesDoNotInterfere ==
    (BothDone /\ NoFaultYet)
        => /\ ret = <<TRUE, TRUE>>
           /\ \A k \in Instances : \A item \in ItemsOf(k) :
                  /\ ~LExists(fs, item)
                  /\ \E q \in TrashEntries(fs) : fs[q] = call.fs0[item]
           /\ Cardinality(TrashEntries(fs))
                  = Cardinality(TrashEntries(call.fs0))
                    + Cardinality(ItemsOf(1)) + Cardinality(ItemsOf(2))

\* C28: operations are strictly sequential per engine instance: the main
\* screen never has more than one copy, move or delete batch running on its
\* FileOperations instance.
C28_OneBatchAtATime == Cardinality(RunningWorkers) <= 1

\* C29: a copy_file called directly delivers snapshots whose current_bytes
\* ('copied') never decrease, and when it has run to completion (true
\* returned, no failure) the last snapshot delivered shows percent = 100.
C29_CopyFileSnapshots ==
    call.op = "copy_file"
        => /\ prev_snap.copied <= snap.copied
           /\ (Returned("copy_file") /\ ret = TRUE /\ NoFaultYet)
                  => (snap # NoSnap /\ snap.percent = 100)

\* The worker thread takes a step / the client thread takes a step.
WorkerStep == stk' # stk
ClientStep == call'.client # call.client

\* C30: every change of the OperationProgress is made by the thread that
\* holds the progress lock (the worker still holds it after the change);
\* the snapshot for a report is progress.to_dict() taken while the worker
\* holds the lock; and the callback receives that snapshot while the worker
\* does not hold the lock.
C30_ProgressLockDiscipline ==
    [][/\ progress' # progress
            => /\ WorkerStep \/ ClientStep
               /\ WorkerStep => (call.lock = "worker" /\ call'.lock = "worker")
               /\ ClientStep => call.lock = "client"
       /\ call'.progress_data # call.progress_data
            => /\ call.lock = "worker"
               /\ call'.progress_data = to_dict(progress)
       /\ snap' # snap
            => (call.lock # "worker" /\ snap' = call.progress_data)]_vars

\* An error was recorded and then seen by the client's get_errors(), and a
\* report with that error has reached the callback.
C30_Witness ==
    /\ call.op = "delete"
    /\ call.got # <<>>
    /\ snap.errors > 0

\* The items of the batch that copy dispatches on: regular files and
\* directories at the call.
Copyable == {k \in 1..Len(call.items) :
                IsFile(call.fs0, call.items[k]) \/ IsDir(call.fs0, call.items[k])}
RootNotCreated ==
    \E e \in 1..Len(progress.errors) :
        progress.errors[e] = "Cannot create destination directory"

\* C31: a copy batch that was not cancelled goes through all its items: when
\* the destination root could not be created no item was processed, nothing
\* has changed, an error is recorded and the result is false; otherwise every
\* file or directory of the batch was either copied or failed with an error
\* of its own, whatever happened to the items before it.
C31_FailedItemDoesNotStopBatch ==
    (Returned("copy") /\ ~cancel_flag)
        => IF RootNotCreated
           THEN ret = FALSE /\ copied = {} /\ fs = call.fs0
           ELSE Cardinality(Copyable \ copied) <= Len(progress.errors)

\* The first item of a batch failed and the second one was copied.
C31_Witness ==
    /\ Returned("copy") /\ ~cancel_flag /\ ~RootNotCreated
    /\ 1 \in Copyable \ copied
    /\ 2 \in copied
    /\ ret = FALSE

\* A warning about the metadata, the permissions or the ownership is recorded.
MetadataWarning ==
    \E w \in 1..Len(progress.warnings) :
        progress.warnings[w] \in {"Cannot copy metadata",
                                  "Cannot preserve permissions",
                                  "Cannot preserve ownership"}

\* C32: when a direct copy_file has returned: true means that as many chunks
\* were written as the source holds and that a requested verification
\* passed; when replicating the metadata, the permissions or the ownership
\* failed, a warning about it is recorded, no error is added for it and the
\* result is what the data copy and the verification alone give.
C32_MetadataFailureIsWarning ==
    Returned("copy_file")
        => /\ ret = TRUE
                => /\ GetSize(fs, call.dst) = GetSize(call.fs0, call.items[1])
                   /\ call.verify => last_copy_file.verified = "pass"
           /\ last_copy_file.meta # "ok"
                => /\ MetadataWarning
                   /\ ret = (call.verify => last_copy_file.verified = "pass")
                   /\ Len(progress.errors) - call.errors0 = IF ret THEN 0 ELSE 1

\* The items of the batch that existed at the call and are still in place.
ItemsLeft ==
    {k \in 1..Len(call.items) :
        LExists(call.fs0, call.items[k]) /\ LExists(fs, call.items[k])}

\* A delete to the trash whose trash directory was missing at the call and is
\* missing still: it could not be created.
TrashNotCreated ==
    /\ call.op = "delete" /\ call.use_trash
    /\ ~LExists(call.fs0, TRASH)
    /\ ~LExists(fs, TRASH)

\* C33: when the trash directory is missing and cannot be created, a delete
\* requested with use_trash = true moves nothing to the trash, and when it
\* has returned without cancellation its result is true exactly when no
\* removal recorded an error: the failed creation alone costs nothing.  The
\* items are removed in place: an item is left, or an error recorded, only
\* for a failure other than that of the creation.
C33_TrashFallbackIsPermanent ==
    TrashNotCreated
        => /\ \A p \in DOMAIN fs : ~IsPrefix(TRASH, p)
           /\ (Returned("delete") /\ ~cancel_flag)
                  => /\ ret = (progress.errors = <<>>)
                     /\ Len(progress.errors) <= MaxFaults - faults - 1
                     /\ Cardinality(ItemsLeft) <= MaxFaults - faults - 1

\* A batch of two items has been deleted permanently after the trash
\* directory could not be created.
C33_Witness ==
    /\ TrashNotCreated
    /\ Returned("delete") /\ ~cancel_flag
    /\ faults < MaxFaults
    /\ Len(call.items) >= 2
    /\ ret = TRUE

\* The path under the move's dest_dir that corresponds to the entry p of the
\* item: dest_dir/basename(item)/the rest of p.
Corresponding(item, p) == call.dst \o SubSeq(p, Len(item), Len(p))

\* The entry p of f has a copy at q: a regular file with the same bytes, a
\* directory, or (for a symbolic link) an entry at all.
HasCopy(f, p, q) ==
    CASE f[p].kind = "file" -> IsFile(f, q) /\ Data(f, q) = f[p].data
      [] f[p].kind = "dir" -> IsDir(f, q)
      [] OTHER -> LExists(f, q)

\* C34: in a fallback move (copy, then permanent delete of the originals), a
\* step of the delete removes an entry of an item only if a copy of that
\* entry is at the corresponding path under dest_dir.
C34_MoveNeverLosesData ==
    [][(call.op = "move" /\ ~Idle /\ Top.fn = "delete")
          => \A p \in (DOMAIN fs) \ (DOMAIN fs') :
                 \A k \in 1..Len(call.items) :
                     IsPrefix(call.items[k], p)
                         => HasCopy(fs, p, Corresponding(call.items[k], p))]_vars

\* --------------------------------------- copies into the items' own directory
\* The pane that shows s is also the destination: copy(items, s) and
\* copy_file(src, src).

\* The client calls copy(items, dest_dir) with the items' own directory.
call_copy_same_dir ==
    \E items \in ItemLists, verify \in BOOLEAN :
        Begin([Frame0 EXCEPT !.fn = "copy", !.pc = "start", !.items = items,
                             !.dst = S, !.verify = verify],
              NewCall("copy", items, S, verify, FALSE), FALSE)

\* The client calls copy_file(src, dst) with dst = src.
call_copy_file_same_path ==
    \E src \in {<<"s", "a">>, <<"s", "b">>}, verify \in BOOLEAN :
        Begin(CopyFileFrame(src, src, verify),
              NewCall("copy_file", <<src>>, src, verify, FALSE), FALSE)

CopyWorker ==
    \/ CopyFileWorker
    \/ copy_start \/ calculate_total_size \/ copy_seed \/ copy_loop
    \/ copy_after_file \/ copy_after_dir \/ copy_final \/ copy_return
    \/ copy_directory_begin \/ copy_directory_loop \/ copy_directory_after_file
    \/ copy_directory_after_dir
NextSameDir == Control \/ call_copy_same_dir \/ call_copy_file_same_path \/ CopyWorker
SpecSameDir == Init /\ [][NextSameDir]_vars

\* C35: copy never alters its sources: when copy(items, dest_dir) or
\* copy_file(src, dst) has returned, whatever the result, every source item
\* and everything below it is as it was at the call.
C35_CopyKeepsSources ==
    (Returned("copy") \/ Returned("copy_file"))
        => \A k \in 1..Len(call.items) :
               SameTree(call.fs0, call.items[k], fs, call.items[k])

\* C36: a snapshot with overall_percent = 100 reaches the callback only when
\* the batch has no work left: in a delete and in a move that runs without
\* failure and without cancellation, the last snapshot delivered shows 100
\* only when every item has left its source path.
C36_HundredPercentMeansDone ==
    (/\ call.op \in {"delete", "move"}
     /\ snap # NoSnap /\ snap.overall_percent = 100
     /\ NoFaultYet /\ ~cancel_flag)
        => \A k \in 1..Len(call.items) : ~LExists(fs, call.items[k])

InsideTree(inner) ==
    (S :> DirNode) @@ (<<"s", "a">> :> FileNode(<<2>>)) @@ (<<"s", "b">> :> DirNode)
    @@ (IF inner = "file" THEN <<"s", "b", "a">> :> FileNode(<<1>>) ELSE <<>>)

InitInside ==
    /\ \E inner \in {"file", "empty"} : fs = InsideTree(inner)
    /\ xdev = FALSE
    /\ cancel_flag = FALSE
    /\ pause_flag = FALSE
    /\ progress = reset
    /\ stk = <<>>
    /\ ret = FALSE
    /\ call = NoCall
    /\ snap = NoSnap
    /\ prev_snap = NoSnap
    /\ last_copy_file = NoCopyFile
    /\ cancel_early = FALSE
    /\ copied = {}
    /\ faults = MaxFaults
    /\ nops = 0

\* The client calls copy(items, dest_dir) with dest_dir = the item s/b.
call_copy_into_itself ==
    \E items \in {<< <<"s", "b">> >>, << <<"s", "b">>, <<"s", "a">> >>} :
        Begin([Frame0 EXCEPT !.fn = "copy", !.pc = "start", !.items = items,
                             !.dst = <<"s", "b">>],
              NewCall("copy", items, <<"s", "b">>, FALSE, FALSE), FALSE)

NextInside == Control \/ call_copy_into_itself \/ CopyWorker
SpecInside == InitInside /\ [][NextInside]_vars /\ WF_vars(CopyWorker)

\* Every copy_directory and copy_file call in progress has a source that
\* existed when the batch was called.
VisitsOnlyOriginals ==
    \A i \in 1..Len(stk) :
        stk[i].fn \in {"copy_directory", "copy_file"}
            => LExists(call.fs0, stk[i].src)

\* C38: copy_directory terminates wherever the destination lies: the
\* recursion visits only entries that existed in the source when the copy
\* started, and (the engine not being held paused for ever) the copy returns.
C38_CopyDirectoryTerminates ==
    /\ [](call.op = "copy" => VisitsOnlyOriginals)
    /\ (<>[](~pause_flag)) => (call.op = "copy" ~> Returned("copy"))

\* ------------------------------------------------------ FilePane's history
\* One FilePane over a fixed tree.  In this specification call holds the
\* pane: its directory, history and history_pos, the navigation call made
\* last (op) with the directory it started from (from), and the call made
\* before that (prev_op) with its result (prev_ret) and the directory it
\* started from (prev_from); ret is the value the last call returned.  The
\* root directory is the empty path.

\* os.path.isdir for the pane: the root or a directory of the tree.
PaneIsDir(p) == p = <<>> \/ IsDir(fs, p)

\* The paths the pane is asked to change to.
PanePaths == {<<>>, S, <<"s", "a">>, <<"s", "a", "b">>, <<"s", "b">>, <<"s", "zz">>}

\* FilePane.__init__ with directory s.
InitPane ==
    /\ fs = SourceTree("dir") @@ (<<"s", "b">> :> FileNode(<<2>>))
    /\ xdev = FALSE
    /\ cancel_flag = FALSE
    /\ pause_flag = FALSE
    /\ progress = reset
    /\ stk = <<>>
    /\ ret = FALSE
    /\ call = [op |-> "none", directory |-> S, history |-> <<>>,
               history_pos |-> -1, from |-> S, prev_op |-> "none",
               prev_ret |-> FALSE, prev_from |-> S]
    /\ snap = NoSnap
    /\ prev_snap = NoSnap
    /\ last_copy_file = NoCopyFile
    /\ cancel_early = FALSE
    /\ copied = {}
    /\ faults = MaxFaults
    /\ nops = 0

\* A navigation call made on the pane: its effect on the pane and its result.
PaneCall(op, pane, result) ==
    /\ nops < MaxPaneCalls
    /\ nops' = nops + 1
    /\ call' = [pane EXCEPT !.op = op, !.from = call.directory,
                            !.prev_op = call.op, !.prev_ret = ret,
                            !.prev_from = call.from]
    /\ ret' = result
    /\ UNCHANGED <<fs, xdev, cancel_flag, pause_flag, progress, stk, snap,
                   prev_snap, last_copy_file, cancel_early, copied, faults>>

\* The pane after a successful change_directory(path): the history is cut
\* behind history_pos, the directory left is appended (history is indexed
\* from 0 in the code, from 1 here), history_pos moves on.
Changed(path) ==
    LET kept == IF call.history_pos < Len(call.history) - 1
                THEN SubSeq(call.history, 1, call.history_pos + 1)
                ELSE call.history
    IN  [call EXCEPT !.history = Append(kept, call.directory),
                     !.history_pos = @ + 1,
                     !.directory = path]

\* FilePane.change_directory(path)
change_directory ==
    \E path \in PanePaths :
        IF PaneIsDir(path)
        THEN PaneCall("change_directory", Changed(path), TRUE)
        ELSE PaneCall("change_directory", call, FALSE)

\* FilePane.go_back()
go_back ==
    IF call.history_pos > 0
    THEN PaneCall("go_back",
                  [call EXCEPT !.history_pos = @ - 1,
                               !.directory = call.history[call.history_pos]],
                  TRUE)
    ELSE PaneCall("go_back", call, FALSE)

\* FilePane.go_forward()
go_forward ==
    IF call.history_pos < Len(call.history) - 1
    THEN PaneCall("go_forward",
                  [call EXCEPT !.history_pos = @ + 1,
                               !.directory = call.history[call.history_pos + 2]],
                  TRUE)
    ELSE PaneCall("go_forward", call, FALSE)

\* FilePane.go_to_parent()
go_to_parent ==
    LET parent == Parent(call.directory)
    IN  IF parent # call.directory /\ PaneIsDir(parent)
        THEN PaneCall("go_to_parent", Changed(parent), TRUE)
        ELSE PaneCall("go_to_parent", call, FALSE)

NextPane == change_directory \/ go_back \/ go_forward \/ go_to_parent
SpecPane == InitPane /\ [][NextPane]_vars

\* C39: FilePane's history is consistent: a go_back() made right after a
\* successful change_directory from directory d returns true and makes d the
\* current directory; a go_forward() made right after a successful go_back()
\* restores the directory that was current before the go_back(); and at all
\* times -1 <= history_pos < len(history).
C39_HistoryConsistent ==
    /\ [](/\ -1 <= call.history_pos
          /\ call.history_pos < Len(call.history))
    /\ []((call.op = "go_back" /\ call.prev_op = "change_directory" /\ call.prev_ret)
             => (ret = TRUE /\ call.directory = call.prev_from))
    /\ []((call.op = "go_forward" /\ call.prev_op = "go_back" /\ call.prev_ret)
             => call.directory = call.prev_from)
====
